---------------------------- MODULE Spec2Model ----------------------------
(***************************************************************************)
(* Model of the Nexus recommendation core:                                 *)
(*   - RecommendationEngine (src/src/services/recommendationEngine.js):    *)
(*     the user preference store and the collaborative, content-based,     *)
(*     hybrid, popular and recent-activity recommenders;                   *)
(*   - CSVParserService (src/src/services/csvParser.js): the catalogue     *)
(*     array and the sorted views taken of it;                             *)
(*   - VideoDatabaseService (src/src/services/videoDatabase.js): the lazy  *)
(*     load, the API-first handlers and their local fallbacks.             *)
(*                                                                         *)
(* Numbers.  The source computes with IEEE doubles; the model computes     *)
(* with exact integers in fixed units:                                     *)
(*   - every recommendationScore / similarity counts 1/ScoreUnit;          *)
(*   - engagementRate counts tenths;                                       *)
(*   - a stored preference (preferences Map) counts halves.                *)
(* JS Set and Map iterate in insertion order.  likedVideos (whose first    *)
(* element and traversal order are read) and the userPreferences Map are   *)
(* sequences; viewedVideos, sharedVideos and dislikedVideos are only       *)
(* tested for membership and size and are sets.                            *)
(***************************************************************************)
EXTENDS Integers, Sequences, FiniteSets, TLC

VARIABLES
    videos,          \* csvParser.videos, the same array object as videoDatabase.csvData
    isLoaded,        \* videoDatabase.isLoaded (the engine exists exactly when it is TRUE)
    userPreferences, \* recommendationEngine.userPreferences, a Map in insertion order
    interactions,    \* number of interactions passed to the store so far
    lastOp,          \* SpecPrefs: the last call of addUserPreference, or NoOp
    lastRecs,        \* outcome of the last getRecommendations call since the last interaction
    lastOut,         \* outcome of the last direct engine call
    loadPromise,     \* videoDatabase.loadPromise: "null", "pending" or "settled"
    pc,              \* position of each caller of videoDatabase.ensureLoaded
    loadStarts,      \* number of times loadDatabase was started so far
    grid,            \* VideoGridPanel: its likedVideos and dislikedVideos, and the videos clicked
    parser           \* csvParser: its isLoaded, its loadPromise and the loads it started

appVars == <<loadPromise, pc, loadStarts, grid, parser>>
vars == <<videos, isLoaded, userPreferences, interactions, lastOp, lastRecs, lastOut,
          loadPromise, pc, loadStarts, grid, parser>>

-----------------------------------------------------------------------------
(* Bounds of the model *)

MaxInteractions == 1    \* interactions per run of Spec (service level)
MaxPrefOps == 2         \* interactions per run of SpecPrefs (store level)
MaxPrefs == 3           \* like/dislike interactions replayed into a store of SpecEngine
MaxLimit == 2           \* largest limit / count asked of a recommender
MaxLiked == 2           \* videos liked by each user in a store of SpecCollab

-----------------------------------------------------------------------------
(* Units *)

ScoreUnit == 6 * 1000   \* a score s of the source is the integer s * ScoreUnit
EngUnit == 2 * 5        \* an engagementRate e of the source is the integer e * EngUnit

-----------------------------------------------------------------------------
(* Generic helpers *)

Min(a, b) == IF a < b THEN a ELSE b
Max(a, b) == IF a > b THEN a ELSE b
Abs(a) == IF a < 0 THEN -a ELSE a

Range(s) == {s[i] : i \in DOMAIN s}

\* Array.prototype.slice(0, n) for n >= 0
Take(s, n) == SubSeq(s, 1, Min(n, Len(s)))

\* The elements of s at the indices I, in their order in s (Array.prototype.filter).
AtIndices(s, I) ==
    [p \in 1..Cardinality(I) |->
        s[CHOOSE i \in I : Cardinality({j \in I : j < i}) = p - 1]]

\* Array.prototype.sort((a, b) => key(b) - key(a)): descending by key, stable
\* (ECMAScript 2019), k[i] being the key of s[i].
SortDescBy(s, k) ==
    LET rank(i) == 1 + Cardinality({j \in DOMAIN s :
                          k[j] > k[i] \/ (k[j] = k[i] /\ j < i)})
    IN  [p \in DOMAIN s |-> s[CHOOSE i \in DOMAIN s : rank(i) = p]]

\* All orders of the elements of s.
Orderings(s) ==
    {[i \in DOMAIN s |-> s[f[i]]] :
        f \in {g \in [DOMAIN s -> DOMAIN s] : \A a, b \in DOMAIN s : g[a] = g[b] => a = b}}

RECURSIVE SumSeq(_)
SumSeq(s) == IF s = <<>> THEN 0 ELSE Head(s) + SumSeq(Tail(s))

RECURSIVE Concat(_)
Concat(ss) == IF ss = <<>> THEN <<>> ELSE Head(ss) \o Concat(Tail(ss))

-----------------------------------------------------------------------------
(* Catalogue data: video records as createVideoObject builds them.         *)
(* title is the sequence of its lower-cased whitespace-separated words.    *)

VA == [id |-> "A", channelName |-> "C", videoTags |-> {"x", "y"}, title |-> <<"cat", "one">>,
       engagementRate |-> 1, popularityScore |-> 5, trendingScore |-> 0]
VB == [id |-> "B", channelName |-> "C", videoTags |-> {"x", "y"}, title |-> <<"cat", "two">>,
       engagementRate |-> 1, popularityScore |-> 0, trendingScore |-> 0]
VD == [id |-> "D", channelName |-> "Z", videoTags |-> {}, title |-> <<"dog">>,
       engagementRate |-> 3, popularityScore |-> 5, trendingScore |-> 5]
VE == [id |-> "E", channelName |-> "C", videoTags |-> {"x", "y"}, title |-> <<"cat", "two">>,
       engagementRate |-> 1, popularityScore |-> 0, trendingScore |-> 10]

\* Parsed CSV files.
Catalogues == {<<VA, VB, VD>>, <<VA, VB, VE>>}

\* What the lazy load of the service can produce: a parsed file, or [] when the
\* fetch fails (loadCSVData's catch).
LoadResults == {<<VA, VB, VE>>, <<>>}

Users == {"u1", "u2"}
Actions == {"like", "dislike", "unlike", "undislike", "view", "share", "bookmark"}
Limits == 1..MaxLimit

-----------------------------------------------------------------------------
(* User preference store *)

NoOp == [action |-> "none"]

EmptyProfile(userId) ==
    [userId |-> userId, likedVideos |-> <<>>, viewedVideos |-> {}, sharedVideos |-> {},
     dislikedVideos |-> {}, preferences |-> [v \in {} |-> 0]]

has(up, userId) == \E i \in DOMAIN up : up[i].userId = userId
indexOf(up, userId) == CHOOSE i \in DOMAIN up : up[i].userId = userId
get(up, userId) == up[indexOf(up, userId)]

liked(up, userId) == IF has(up, userId) THEN Range(get(up, userId).likedVideos) ELSE {}
disliked(up, userId) == IF has(up, userId) THEN get(up, userId).dislikedVideos ELSE {}

\* Set.prototype.add on an insertion-ordered set
setAdd(s, x) == IF x \in Range(s) THEN s ELSE Append(s, x)

\* preferences.set(videoId, value)
mapSet(m, k, val) == [x \in DOMAIN m \cup {k} |-> IF x = k THEN val ELSE m[x]]

\* Variant against which the preference arithmetic is tested: the new value is
\* stored whatever was recorded before.
applyWithoutPrevious(p, videoId, action, score) ==
    CASE action = "like" ->
           [p EXCEPT !.likedVideos = setAdd(@, videoId),
                     !.preferences = mapSet(@, videoId, 2 * score)]
      [] action = "view" ->
           [p EXCEPT !.viewedVideos = @ \cup {videoId},
                     !.preferences = mapSet(@, videoId, score)]
      [] action = "share" ->
           [p EXCEPT !.sharedVideos = @ \cup {videoId},
                     !.preferences = mapSet(@, videoId, 3 * score)]
      [] action = "dislike" ->
           [p EXCEPT !.dislikedVideos = @ \cup {videoId},
                     !.preferences = mapSet(@, videoId, (-2) * score)]
      [] OTHER -> p

\* The switch of addUserPreference applied to one profile; score counts units,
\* the stored preference counts halves.
applyAction(p, videoId, action, score) ==
    LET prev == IF videoId \in DOMAIN p.preferences THEN p.preferences[videoId] ELSE 0
    IN  CASE action = "like" ->
               [p EXCEPT !.likedVideos = setAdd(@, videoId),
                         !.preferences = mapSet(@, videoId, Max(2 * score, prev))]
          [] action = "view" ->
               [p EXCEPT !.viewedVideos = @ \cup {videoId},
                         !.preferences = mapSet(@, videoId, Max(score, prev))]
          [] action = "share" ->
               [p EXCEPT !.sharedVideos = @ \cup {videoId},
                         !.preferences = mapSet(@, videoId, Max(3 * score, prev))]
          [] action = "dislike" ->
               [p EXCEPT !.dislikedVideos = @ \cup {videoId},
                         !.preferences = mapSet(@, videoId, Min((-2) * score, prev))]
          [] OTHER -> p

\* addUserPreference: create the profile when absent, then the switch.
addUserPreference(up, userId, videoId, action, score) ==
    LET up1 == IF has(up, userId) THEN up ELSE Append(up, EmptyProfile(userId))
        i == indexOf(up1, userId)
    IN  [up1 EXCEPT ![i] = applyAction(@, videoId, action, score)]

-----------------------------------------------------------------------------
(* Similarity functions of the engine *)

\* Variant: the viewed videos counted with the liked ones.
similarityOverLikedAndViewed(userPrefs1, userPrefs2) ==
    LET seen1 == Range(userPrefs1.likedVideos) \cup userPrefs1.viewedVideos
        seen2 == Range(userPrefs2.likedVideos) \cup userPrefs2.viewedVideos
    IN  IF Cardinality(seen1 \cup seen2) = 0 THEN 0
        ELSE (Cardinality(seen1 \cap seen2) * ScoreUnit) \div Cardinality(seen1 \cup seen2)

\* calculateUserSimilarity: Jaccard of the two likedVideos sets.
calculateUserSimilarity(userPrefs1, userPrefs2) ==
    LET liked1 == Range(userPrefs1.likedVideos)
        liked2 == Range(userPrefs2.likedVideos)
        intersection == liked1 \cap liked2
        union == liked1 \cup liked2
    IN  IF Cardinality(union) = 0 THEN 0
        ELSE (Cardinality(intersection) * ScoreUnit) \div Cardinality(union)

\* Variant: the number of shared words, not divided by the number of words.
textOverlapUnnormalised(text1, text2) == Cardinality(Range(text1) \cap Range(text2)) * ScoreUnit

\* calculateTextSimilarity: Jaccard of the two word sets.
calculateTextSimilarity(text1, text2) ==
    LET words1 == Range(text1)
        words2 == Range(text2)
        intersection == words1 \cap words2
        union == words1 \cup words2
    IN  IF Cardinality(union) > 0
        THEN (Cardinality(intersection) * ScoreUnit) \div Cardinality(union)
        ELSE 0

\* Variant: the shared tags counted against the first video's tags alone.
similarityByFirstTags(video1, video2) ==
    LET channel == IF video1.channelName = video2.channelName THEN 4 * ScoreUnit ELSE 0
        tagIntersection == video1.videoTags \cap video2.videoTags
        tags == IF Cardinality(video1.videoTags) > 0
                THEN (3 * ScoreUnit * Cardinality(tagIntersection))
                         \div Cardinality(video1.videoTags)
                ELSE 0
        titleSimilarity == calculateTextSimilarity(video1.title, video2.title)
        engagementDiff == Abs(video1.engagementRate - video2.engagementRate)
        engagementSimilarity == Max(0, ScoreUnit - engagementDiff * (ScoreUnit \div EngUnit))
    IN  (channel + tags + 2 * titleSimilarity + 1 * engagementSimilarity) \div 10

\* Variant: the title weight counted in the mass, the title overlap never added.
similarityIgnoringTitle(video1, video2) ==
    LET channel == IF video1.channelName = video2.channelName THEN 4 * ScoreUnit ELSE 0
        tagIntersection == video1.videoTags \cap video2.videoTags
        tagUnion == video1.videoTags \cup video2.videoTags
        tags == IF Cardinality(tagUnion) > 0
                THEN (3 * ScoreUnit * Cardinality(tagIntersection)) \div Cardinality(tagUnion)
                ELSE 0
        engagementDiff == Abs(video1.engagementRate - video2.engagementRate)
        engagementSimilarity == Max(0, ScoreUnit - engagementDiff * (ScoreUnit \div EngUnit))
    IN  (channel + tags + 1 * engagementSimilarity) \div 10

\* calculateVideoSimilarity: the weights count tenths (0.4, 0.3, 0.2, 0.1).
calculateVideoSimilarity(video1, video2) ==
    LET channel == IF video1.channelName = video2.channelName THEN 4 * ScoreUnit ELSE 0
        tagIntersection == video1.videoTags \cap video2.videoTags
        tagUnion == video1.videoTags \cup video2.videoTags
        tags == IF Cardinality(tagUnion) > 0
                THEN (3 * ScoreUnit * Cardinality(tagIntersection)) \div Cardinality(tagUnion)
                ELSE 0
        titleSimilarity == calculateTextSimilarity(video1.title, video2.title)
        engagementDiff == Abs(video1.engagementRate - video2.engagementRate)
        engagementSimilarity == Max(0, ScoreUnit - engagementDiff * (ScoreUnit \div EngUnit))
        similarity == channel + tags + 2 * titleSimilarity + 1 * engagementSimilarity
        factors == 4 + 3 + 2 + 1
    IN  IF factors > 0 THEN similarity \div factors ELSE 0

\* findSimilarUsers: the other profiles with positive similarity, most similar first.
findSimilarUsers(up, userId) ==
    IF ~has(up, userId) THEN <<>>
    ELSE LET userPrefs == get(up, userId)
             positive == {i \in DOMAIN up :
                            /\ up[i].userId # userId
                            /\ calculateUserSimilarity(userPrefs, up[i]) > 0}
             similarities == [i \in DOMAIN AtIndices(up, positive) |->
                                [userId |-> AtIndices(up, positive)[i].userId,
                                 similarity |-> calculateUserSimilarity(
                                                    userPrefs, AtIndices(up, positive)[i])]]
         IN  SortDescBy(similarities, [i \in DOMAIN similarities |-> similarities[i].similarity])

-----------------------------------------------------------------------------
(* Variants of the recommenders, against which the properties are tested *)

\* popularity alone, without the trending term
popularityOnly(video) == video.popularityScore * ScoreUnit

\* the first `limit` catalogue videos as they come, whatever the user liked
collaborativeUnranked(allVideos, up, userId, limit) ==
    Take([i \in DOMAIN allVideos |-> [id |-> allVideos[i].id, recommendationScore |-> 0]], limit)

\* nothing at all for a reference video the catalogue does not hold
contentWithoutFallback(allVideos, videoId, limit) ==
    Take([i \in DOMAIN allVideos |-> [id |-> allVideos[i].id, recommendationScore |-> 0]],
         IF \E i \in DOMAIN allVideos : allVideos[i].id = videoId THEN limit ELSE 0)

\* candidates scored with the similarity of the first user who liked them only
candidatesWithoutSum(kept) ==
    LET firsts == AtIndices(kept, {i \in DOMAIN kept :
                     \A j \in DOMAIN kept : j < i => kept[j].videoId # kept[i].videoId})
    IN  [c \in DOMAIN firsts |->
           [id |-> firsts[c].videoId, recommendationScore |-> firsts[c].similarity]]

\* every visited video kept, whatever the user liked or disliked
keepAllPairs(visited, userPrefs) == visited

\* every catalogue video ranked by similarity, the reference video among them
contentIncludingReference(allVideos, videoId, limit) ==
    LET known == \E j \in DOMAIN allVideos : allVideos[j].id = videoId
        scored == [i \in DOMAIN allVideos |->
                     [id |-> allVideos[i].id,
                      recommendationScore |->
                          IF known
                          THEN calculateVideoSimilarity(
                                   allVideos[CHOOSE j \in DOMAIN allVideos :
                                                 allVideos[j].id = videoId],
                                   allVideos[i])
                          ELSE 0]]
    IN  Take(SortDescBy(scored, [i \in DOMAIN scored |-> scored[i].recommendationScore]), limit)

\* a merge that keeps only the videos present in both lists
combineBothOnly(collaborativeRecs, contentBasedRecs, limit) ==
    LET both == AtIndices(collaborativeRecs, {i \in DOMAIN collaborativeRecs :
                    \E j \in DOMAIN contentBasedRecs :
                        contentBasedRecs[j].id = collaborativeRecs[i].id})
    IN  Take([i \in DOMAIN both |->
                [id |-> both[i].id,
                 recommendationScore |-> (6 * both[i].recommendationScore) \div 10]], limit)

-----------------------------------------------------------------------------
(* Recommenders of the engine.  A result is a sequence of                  *)
(* [id, recommendationScore], the two fields of the returned video objects *)
(* that callers read.                                                      *)

inCatalogue(allVideos, videoId) == \E i \in DOMAIN allVideos : allVideos[i].id = videoId

\* allVideos.find(v => v.id === videoId), for an id that is in the catalogue
find(allVideos, videoId) ==
    allVideos[CHOOSE i \in DOMAIN allVideos :
                /\ allVideos[i].id = videoId
                /\ \A j \in DOMAIN allVideos : allVideos[j].id = videoId => i <= j]

\* trendingScore * 0.4 + popularityScore * 0.6
popularScore(video) == ((4 * video.trendingScore + 6 * video.popularityScore) * ScoreUnit) \div 10

getPopularRecommendations(allVideos, limit) ==
    LET scored == [i \in DOMAIN allVideos |->
                     [id |-> allVideos[i].id, recommendationScore |-> popularScore(allVideos[i])]]
    IN  Take(SortDescBy(scored, [i \in DOMAIN scored |-> scored[i].recommendationScore]), limit)

getContentBasedRecommendations(allVideos, videoId, limit) ==
    IF ~inCatalogue(allVideos, videoId) THEN getPopularRecommendations(allVideos, limit)
    ELSE LET referenceVideo == find(allVideos, videoId)
             others == AtIndices(allVideos, {i \in DOMAIN allVideos : allVideos[i].id # videoId})
             similarities == [i \in DOMAIN others |->
                                [id |-> others[i].id,
                                 recommendationScore |->
                                     calculateVideoSimilarity(referenceVideo, others[i])]]
         IN  Take(SortDescBy(similarities,
                     [i \in DOMAIN similarities |-> similarities[i].recommendationScore]),
                  limit)

\* The two loops of getCollaborativeRecommendations: the (videoId, similarity) pairs
\* in the order they are visited, similar users first to last, each user's
\* likedVideos in insertion order.
visitedPairs(up, similarUsers) ==
    Concat([i \in DOMAIN similarUsers |->
              [j \in DOMAIN get(up, similarUsers[i].userId).likedVideos |->
                 [videoId |-> get(up, similarUsers[i].userId).likedVideos[j],
                  similarity |-> similarUsers[i].similarity]]])

\* if (!userPrefs.likedVideos.has(videoId) && !userPrefs.dislikedVideos.has(videoId))
keptPairs(visited, userPrefs) ==
    AtIndices(visited, {i \in DOMAIN visited :
        /\ visited[i].videoId \notin Range(userPrefs.likedVideos)
        /\ visited[i].videoId \notin userPrefs.dislikedVideos})

\* The candidateVideos Map, in insertion order: each video with the sum of the
\* similarities of the users who liked it.
candidateVideos(kept) ==
    LET firsts == AtIndices(kept, {i \in DOMAIN kept :
                     \A j \in DOMAIN kept : j < i => kept[j].videoId # kept[i].videoId})
        liking(videoId) == AtIndices(kept, {i \in DOMAIN kept : kept[i].videoId = videoId})
    IN  [c \in DOMAIN firsts |->
           [id |-> firsts[c].videoId,
            recommendationScore |->
                SumSeq([i \in DOMAIN liking(firsts[c].videoId) |->
                          liking(firsts[c].videoId)[i].similarity])]]

\* .sort((a, b) => b[1] - a[1]).slice(0, limit), then the ids found in the catalogue
rankCandidates(allVideos, candidates, limit) ==
    LET sliced == Take(SortDescBy(candidates,
                          [i \in DOMAIN candidates |-> candidates[i].recommendationScore]),
                       limit)
    IN  AtIndices(sliced, {i \in DOMAIN sliced : inCatalogue(allVideos, sliced[i].id)})

getCollaborativeRecommendations(allVideos, up, userId, limit) ==
    IF ~has(up, userId) \/ get(up, userId).likedVideos = <<>>
    THEN getPopularRecommendations(allVideos, limit)
    ELSE rankCandidates(
             allVideos,
             candidateVideos(keptPairs(visitedPairs(up, findSimilarUsers(up, userId)),
                                       get(up, userId))),
             limit)

\* The merge of getHybridRecommendations: combinedRecs is a Map keyed by id, filled
\* from the collaborative list (weight 0.6) and then from the content list (0.4).
combineRecs(collaborativeRecs, contentBasedRecs, limit) ==
    LET collabIds == {collaborativeRecs[i].id : i \in DOMAIN collaborativeRecs}
        added == AtIndices(contentBasedRecs, {i \in DOMAIN contentBasedRecs :
                     contentBasedRecs[i].id \notin collabIds})
        \* keys of combinedRecs in insertion order (ids are unique within each list)
        keys == [i \in DOMAIN collaborativeRecs |-> collaborativeRecs[i].id]
                  \o [i \in DOMAIN added |-> added[i].id]
        part(recs, id, weight) ==
            LET hits == AtIndices(recs, {i \in DOMAIN recs : recs[i].id = id})
            IN  SumSeq([i \in DOMAIN hits |-> (weight * hits[i].recommendationScore) \div 10])
        combinedRecs == [i \in DOMAIN keys |->
            [id |-> keys[i],
             recommendationScore |-> part(collaborativeRecs, keys[i], 6)
                                       + part(contentBasedRecs, keys[i], 4)]]
    IN  Take(SortDescBy(combinedRecs,
                [i \in DOMAIN combinedRecs |-> combinedRecs[i].recommendationScore]),
             limit)

\* The reference video id handed to getContentBasedRecommendations is userId.
hybridContentList(allVideos, up, userId, limit) ==
    getContentBasedRecommendations(allVideos, userId, limit * 2)

getHybridRecommendations(allVideos, up, userId, limit) ==
    combineRecs(getCollaborativeRecommendations(allVideos, up, userId, limit * 2),
                hybridContentList(allVideos, up, userId, limit),
                limit)

getRecentActivityRecommendations(allVideos, up, userId, limit) ==
    IF ~has(up, userId) \/ get(up, userId).viewedVideos = {}
    THEN getPopularRecommendations(allVideos, limit)
    ELSE LET userPrefs == get(up, userId)
             viewedChannels == {allVideos[i].channelName : i \in
                                  {j \in DOMAIN allVideos : allVideos[j].id \in userPrefs.viewedVideos}}
             recentCandidates == AtIndices(allVideos, {i \in DOMAIN allVideos :
                                   /\ allVideos[i].channelName \in viewedChannels
                                   /\ allVideos[i].id \notin userPrefs.viewedVideos
                                   /\ allVideos[i].id \notin userPrefs.dislikedVideos})
             sorted == SortDescBy(recentCandidates,
                          [i \in DOMAIN recentCandidates |-> recentCandidates[i].popularityScore])
         IN  [i \in DOMAIN Take(sorted, limit) |->
                [id |-> sorted[i].id,
                 recommendationScore |-> sorted[i].popularityScore * ScoreUnit]]


-----------------------------------------------------------------------------
(* VideoDatabaseService: API-first handlers with local fallbacks.          *)
(* An outcome is [threw, items, videos, loaded]: whether the call rejected,*)
(* the list it returned, and csvParser.videos / isLoaded after it.         *)

Types == {"collaborative", "content", "hybrid", "popular", "trending", "recent", "other"}
ApiResponses == {"ok", "http404", "network"}

\* apiService.request throws on a fetch error and on every status that is not ok.
apiThrows(resp) == resp # "ok"

\* The rows a successful backend call answers with come from the external
\* database; the model keeps one app-format row standing for them.
BackendAnswer == <<[id |-> "backend-row", type |-> "video"]>>

\* transformCSVVideoToAppFormat: null (here <<>>) for an object without title and
\* channelName, which is what an app-format object is; otherwise the app-format
\* object, which carries no recommendationScore.
transformCSVVideoToAppFormat(csvVideo) ==
    IF "type" \in DOMAIN csvVideo THEN <<>> ELSE <<[id |-> csvVideo.id, type |-> "video"]>>

\* .map(video => this.transformCSVVideoToAppFormat(video)).filter(video => video !== null)
toAppFormat(list) == Concat([i \in DOMAIN list |-> transformCSVVideoToAppFormat(list[i])])

Returned(items, vs, loaded) == [threw |-> FALSE, items |-> items, videos |-> vs, loaded |-> loaded]
Threw(vs, loaded) == [threw |-> TRUE, items |-> <<>>, videos |-> vs, loaded |-> loaded]

\* ensureLoaded: the catalogue after it, cat being what the CSV load produces.
ensureLoaded(vs, loaded, cat) == IF loaded THEN vs ELSE cat

\* csvParser.getMostPopularVideos / getTopTrendingVideos: this.videos.sort(...) sorts
\* the catalogue array itself.
sortedByPopularity(vs) == SortDescBy(vs, [i \in DOMAIN vs |-> vs[i].popularityScore])
sortedByTrending(vs) == SortDescBy(vs, [i \in DOMAIN vs |-> vs[i].trendingScore])

getMostPopularVideos(vs, loaded, count, resp, cat) ==
    IF ~apiThrows(resp) THEN Returned(BackendAnswer, vs, loaded)
    ELSE LET sorted == sortedByPopularity(ensureLoaded(vs, loaded, cat))
         IN  Returned(toAppFormat(Take(sorted, count)), sorted, TRUE)

getTrendingVideos(vs, loaded, count, resp, cat) ==
    IF ~apiThrows(resp) THEN Returned(BackendAnswer, vs, loaded)
    ELSE LET sorted == sortedByTrending(ensureLoaded(vs, loaded, cat))
         IN  Returned(toAppFormat(Take(sorted, count)), sorted, TRUE)

hasLiked(up, loaded, userId) == loaded /\ has(up, userId) /\ get(up, userId).likedVideos # <<>>

\* The try block of getRecommendations.
recommendationsTry(vs, up, loaded, userId, type, count, resp, cat) ==
    CASE type \in {"collaborative", "hybrid"} ->
           IF apiThrows(resp) THEN Threw(vs, loaded) ELSE Returned(BackendAnswer, vs, loaded)
      [] type = "content" ->
           IF hasLiked(up, loaded, userId)
           THEN IF apiThrows(resp) THEN Threw(vs, loaded) ELSE Returned(BackendAnswer, vs, loaded)
           ELSE getMostPopularVideos(vs, loaded, count, resp, cat)
      [] type = "trending" -> getTrendingVideos(vs, loaded, count, resp, cat)
      [] type = "recent" ->
           LET all == ensureLoaded(vs, loaded, cat)
           IN  Returned(toAppFormat(getRecentActivityRecommendations(all, up, userId, count)),
                        all, TRUE)
      [] OTHER -> getMostPopularVideos(vs, loaded, count, resp, cat)

\* The catch block of getRecommendations (the engine exists once loaded).
recommendationsCatch(vs, up, loaded, userId, type, count, resp, cat) ==
    LET all == ensureLoaded(vs, loaded, cat)
        again(o) == [o EXCEPT !.items = toAppFormat(@)]
    IN  CASE type = "collaborative" ->
               Returned(toAppFormat(getCollaborativeRecommendations(all, up, userId, count)),
                        all, TRUE)
          [] type = "content" ->
               IF hasLiked(up, TRUE, userId)
               THEN Returned(toAppFormat(getContentBasedRecommendations(
                                 all, Head(get(up, userId).likedVideos), count)), all, TRUE)
               ELSE again(getMostPopularVideos(all, TRUE, count, resp, cat))
          [] type = "hybrid" ->
               Returned(toAppFormat(getHybridRecommendations(all, up, userId, count)), all, TRUE)
          [] type = "trending" -> again(getTrendingVideos(all, TRUE, count, resp, cat))
          [] type = "recent" ->
               Returned(toAppFormat(getRecentActivityRecommendations(all, up, userId, count)),
                        all, TRUE)
          [] OTHER -> again(getMostPopularVideos(all, TRUE, count, resp, cat))

\* Variant against which the error handling is tested: the try block alone.
recommendationsWithoutCatch(vs, up, loaded, userId, type, count, resp, cat) ==
    recommendationsTry(vs, up, loaded, userId, type, count, resp, cat)

getRecommendations(vs, up, loaded, userId, type, count, resp, cat) ==
    LET try == recommendationsTry(vs, up, loaded, userId, type, count, resp, cat)
    IN  IF try.threw
        THEN recommendationsCatch(vs, up, loaded, userId, type, count, resp, cat)
        ELSE try

-----------------------------------------------------------------------------
(* Inputs *)

CurrentUsers == {"u1"}              \* App.jsx serves one currentUserId per session
ServiceVideoIds == {"A", "zz"}      \* a catalogue id and an id of no catalogue
ServiceScores == {5}                \* the default score
ServiceCounts == {1, 2}
PrefVideoIds == {"A", "B"}
PrefScores == {2, 8}                \* the scores the grid sends with dislike and like
EngineVideoIds == {"A", "B", "D"}
ReferenceIds == {"A", "B", "zz"}
Queries == {"", "cat"}

DefaultPopularCount == 20

NoRecs == [type |-> "none"]
NoOut == [op |-> "none"]

\* the callers of ensureLoaded and the grid as they are before anything ran
Callers == {"c1", "c2", "c3"}
\* (the ids 2 and 3 of useState(new Set([2, 3])) are written as strings, as all ids are)
InitialGrid == [likedVideos |-> {"2", "3"}, dislikedVideos |-> {}, clicked |-> {}]

InitialParser == [isLoaded |-> FALSE, loadPromise |-> "null", loadStarts |-> 0]

InitAppState ==
    /\ loadPromise = "null"
    /\ pc = [c \in Callers |-> "idle"]
    /\ loadStarts = 0
    /\ grid = InitialGrid
    /\ parser = InitialParser

-----------------------------------------------------------------------------
(* Service-level specification: from construction, handlers run atomically *)

Init ==
    /\ videos = <<>>
    /\ isLoaded = FALSE
    /\ userPreferences = <<>>
    /\ interactions = 0
    /\ lastOp = NoOp
    /\ lastRecs = NoRecs
    /\ lastOut = NoOut
    /\ InitAppState

\* addUserInteraction: the backend call's failure is caught; the interaction reaches
\* the store only when the engine exists.
AddUserInteraction(userId, videoId, action, score) ==
    /\ interactions < MaxInteractions
    /\ interactions' = interactions + 1
    /\ userPreferences' = IF isLoaded
                          THEN addUserPreference(userPreferences, userId, videoId, action, score)
                          ELSE userPreferences
    /\ lastRecs' = NoRecs
    /\ UNCHANGED <<videos, isLoaded, lastOp, lastOut>>
    /\ UNCHANGED appVars

GetRecommendations(userId, type, count, resp, cat) ==
    LET o == getRecommendations(videos, userPreferences, isLoaded, userId, type, count, resp, cat)
    IN  /\ videos' = o.videos
        /\ isLoaded' = o.loaded
        /\ lastRecs' = [userId |-> userId, type |-> type, count |-> count,
                        apiFailed |-> apiThrows(resp), threw |-> o.threw, items |-> o.items]
        /\ UNCHANGED <<userPreferences, interactions, lastOp, lastOut>>
        /\ UNCHANGED appVars

GetMostPopularVideos(count, resp, cat) ==
    LET o == getMostPopularVideos(videos, isLoaded, count, resp, cat)
    IN  /\ videos' = o.videos
        /\ isLoaded' = o.loaded
        /\ UNCHANGED <<userPreferences, interactions, lastOp, lastRecs, lastOut>>
        /\ UNCHANGED appVars

GetTrendingVideos(count, resp, cat) ==
    LET o == getTrendingVideos(videos, isLoaded, count, resp, cat)
    IN  /\ videos' = o.videos
        /\ isLoaded' = o.loaded
        /\ UNCHANGED <<userPreferences, interactions, lastOp, lastRecs, lastOut>>
        /\ UNCHANGED appVars

\* getRandomVideos: csvData.sort(() => 0.5 - Math.random()) reorders the catalogue
\* array itself; with a random comparator every order is a possible outcome.
GetRandomVideos(cat) ==
    /\ videos' \in Orderings(ensureLoaded(videos, isLoaded, cat))
    /\ isLoaded' = TRUE
    /\ UNCHANGED <<userPreferences, interactions, lastOp, lastRecs, lastOut>>
    /\ UNCHANGED appVars

\* searchVideos: an empty query is getMostPopularVideos(20); otherwise the backend
\* search, and on its failure csvParser.searchVideos, which filters into a new array.
SearchVideos(query, resp, cat) ==
    /\ IF query = ""
       THEN LET o == getMostPopularVideos(videos, isLoaded, DefaultPopularCount, resp, cat)
            IN  videos' = o.videos /\ isLoaded' = o.loaded
       ELSE IF apiThrows(resp)
            THEN videos' = ensureLoaded(videos, isLoaded, cat) /\ isLoaded' = TRUE
            ELSE UNCHANGED <<videos, isLoaded>>
    /\ UNCHANGED <<userPreferences, interactions, lastOp, lastRecs, lastOut>>
    /\ UNCHANGED appVars

\* What a load started now would produce (nothing is loaded twice).
Loadable == IF isLoaded THEN {videos} ELSE LoadResults

Next ==
    \/ \E u \in CurrentUsers, v \in ServiceVideoIds, a \in Actions, s \in ServiceScores :
          AddUserInteraction(u, v, a, s)
    \/ \E u \in CurrentUsers, t \in Types, c \in ServiceCounts, r \in ApiResponses,
          cat \in Loadable : GetRecommendations(u, t, c, r, cat)
    \/ \E r \in ApiResponses, cat \in Loadable : GetMostPopularVideos(DefaultPopularCount, r, cat)
    \/ \E r \in ApiResponses, cat \in Loadable : GetTrendingVideos(DefaultPopularCount, r, cat)
    \/ \E cat \in Loadable : GetRandomVideos(cat)
    \/ \E q \in Queries, r \in ApiResponses, cat \in Loadable : SearchVideos(q, r, cat)

Spec == Init /\ [][Next]_vars

-----------------------------------------------------------------------------
(* Store-level specification: addUserPreference on a fresh engine *)

InitPrefs ==
    /\ videos = <<VA, VB, VD>>
    /\ isLoaded = TRUE
    /\ userPreferences = <<>>
    /\ interactions = 0
    /\ lastOp = NoOp
    /\ lastRecs = NoRecs
    /\ lastOut = NoOut
    /\ InitAppState

AddUserPreference(userId, videoId, action, score) ==
    /\ interactions < MaxPrefOps
    /\ interactions' = interactions + 1
    /\ userPreferences' = addUserPreference(userPreferences, userId, videoId, action, score)
    /\ lastOp' = [userId |-> userId, videoId |-> videoId, action |-> action, score |-> score,
                  applied |-> TRUE, before |-> userPreferences]
    /\ UNCHANGED <<videos, isLoaded, lastRecs, lastOut>>
    /\ UNCHANGED appVars

NextPrefs ==
    \E u \in Users, v \in PrefVideoIds, a \in Actions, s \in PrefScores :
        AddUserPreference(u, v, a, s)

SpecPrefs == InitPrefs /\ [][NextPrefs]_vars

-----------------------------------------------------------------------------
(* Engine-level specification: the recommenders applied to a loaded        *)
(* catalogue and a store built by replaying like / dislike interactions    *)

EngineInteractions ==
    {[userId |-> u, videoId |-> v, action |-> a] :
        u \in Users, v \in EngineVideoIds, a \in {"like", "dislike"}}

RECURSIVE replay(_)
replay(ops) ==
    IF ops = <<>> THEN <<>>
    ELSE addUserPreference(replay(SubSeq(ops, 1, Len(ops) - 1)),
                           ops[Len(ops)].userId, ops[Len(ops)].videoId, ops[Len(ops)].action, 5)

ReplayedStores ==
    {replay(ops) : ops \in UNION {[1..n -> EngineInteractions] : n \in 0..MaxPrefs}}

InitEngine ==
    /\ videos \in Catalogues
    /\ isLoaded = TRUE
    /\ userPreferences \in ReplayedStores
    /\ interactions = 0
    /\ lastOp = NoOp
    /\ lastRecs = NoRecs
    /\ lastOut = NoOut
    /\ InitAppState

EngineCall(op, arg, limit, items) ==
    /\ lastOut = NoOut
    /\ lastOut' = [op |-> op, arg |-> arg, limit |-> limit, items |-> items]
    /\ UNCHANGED <<videos, isLoaded, userPreferences, interactions, lastOp, lastRecs>>
    /\ UNCHANGED appVars

CallPopular(limit) ==
    EngineCall("popular", "-", limit, getPopularRecommendations(videos, limit))

CallCollaborative(userId, limit) ==
    EngineCall("collaborative", userId, limit,
               getCollaborativeRecommendations(videos, userPreferences, userId, limit))

CallContentBased(videoId, limit) ==
    EngineCall("content", videoId, limit, getContentBasedRecommendations(videos, videoId, limit))

CallHybrid(userId, limit) ==
    EngineCall("hybrid", userId, limit,
               getHybridRecommendations(videos, userPreferences, userId, limit))

NextEngine ==
    \/ \E l \in Limits : CallPopular(l)
    \/ \E u \in Users, l \in Limits : CallCollaborative(u, l)
    \/ \E v \in ReferenceIds, l \in Limits : CallContentBased(v, l)
    \/ \E u \in Users, l \in Limits : CallHybrid(u, l)

SpecEngine == InitEngine /\ [][NextEngine]_vars

-----------------------------------------------------------------------------
(* Specification of the collaborative recommender over three users' stores *)

CollabUsers == {"u1", "u2", "u3"}
\* the orders in which a user can have liked up to MaxLiked different videos
LikedLists ==
    {l \in UNION {[1..n -> EngineVideoIds] : n \in 0..MaxLiked} :
        \A i, j \in DOMAIN l : l[i] = l[j] => i = j}

likes(userId, list) ==
    [i \in DOMAIN list |-> [userId |-> userId, videoId |-> list[i], action |-> "like"]]

Dislikes ==
    {<<>>} \cup {<<[userId |-> u, videoId |-> v, action |-> "dislike"]>> :
                    u \in Users, v \in EngineVideoIds}

CollabStores ==
    {replay(likes("u1", l1) \o likes("u2", l2) \o likes("u3", l3) \o d) :
        l1 \in LikedLists, l2 \in LikedLists, l3 \in LikedLists, d \in Dislikes}

InitCollab ==
    /\ videos \in Catalogues
    /\ isLoaded = TRUE
    /\ userPreferences \in CollabStores
    /\ interactions = 0
    /\ lastOp = NoOp
    /\ lastRecs = NoRecs
    /\ lastOut = NoOut
    /\ InitAppState

NextCollab == \E u \in CollabUsers, l \in Limits : CallCollaborative(u, l)

SpecCollab == InitCollab /\ [][NextCollab]_vars

-----------------------------------------------------------------------------
(* Specification of calculateVideoSimilarity over pairs of video records *)

SimilarityChannels == {"C", "Z"}
SimilarityTags == {{}, {"x"}, {"x", "y"}}
SimilarityTitles == {<<"dog">>, <<"cat">>, <<"cat", "two">>}
SimilarityEngagement == {0, 3, 15}     \* engagementRate 0, 0.3 and 1.5

VideoRecords ==
    [id : {"v"}, channelName : SimilarityChannels, videoTags : SimilarityTags,
     title : SimilarityTitles, engagementRate : SimilarityEngagement]

InitSimilarity ==
    /\ videos \in [1..2 -> VideoRecords]
    /\ isLoaded = TRUE
    /\ userPreferences = <<>>
    /\ interactions = 0
    /\ lastOp = NoOp
    /\ lastRecs = NoRecs
    /\ lastOut = NoOut
    /\ InitAppState

CalculateVideoSimilarity(i, j) ==
    /\ lastOut = NoOut
    /\ lastOut' = [op |-> "similarity", first |-> i, second |-> j,
                   value |-> calculateVideoSimilarity(videos[i], videos[j])]
    /\ UNCHANGED <<videos, isLoaded, userPreferences, interactions, lastOp, lastRecs>>
    /\ UNCHANGED appVars

NextSimilarity == \E i \in DOMAIN videos, j \in DOMAIN videos : CalculateVideoSimilarity(i, j)

SpecSimilarity == InitSimilarity /\ [][NextSimilarity]_vars

-----------------------------------------------------------------------------
(* Specification of the three similarity functions together *)

\* at most one view, share or dislike of one user
OtherSignals(userId) ==
    {<<>>} \cup {<<[userId |-> userId, videoId |-> v, action |-> a]>> :
                    v \in EngineVideoIds, a \in {"view", "share", "dislike"}}

ProfilePairs ==
    {replay(likes("u1", l1) \o o1 \o likes("u2", l2) \o o2) :
        l1 \in LikedLists, l2 \in LikedLists,
        o1 \in OtherSignals("u1"), o2 \in OtherSignals("u2")}

InitLibrary ==
    /\ \/ videos \in [1..2 -> VideoRecords] /\ userPreferences = <<>>
       \/ videos = <<>> /\ userPreferences \in ProfilePairs
    /\ isLoaded = TRUE
    /\ interactions = 0
    /\ lastOp = NoOp
    /\ lastRecs = NoRecs
    /\ lastOut = NoOut
    /\ InitAppState

CalculateTextSimilarity(i, j) ==
    /\ lastOut = NoOut
    /\ lastOut' = [op |-> "textSimilarity", first |-> i, second |-> j,
                   value |-> calculateTextSimilarity(videos[i].title, videos[j].title)]
    /\ UNCHANGED <<videos, isLoaded, userPreferences, interactions, lastOp, lastRecs>>
    /\ UNCHANGED appVars

CalculateUserSimilarity(u, w) ==
    /\ lastOut = NoOut
    /\ has(userPreferences, u)
    /\ has(userPreferences, w)
    /\ lastOut' = [op |-> "userSimilarity", first |-> u, second |-> w,
                   value |-> calculateUserSimilarity(get(userPreferences, u),
                                                     get(userPreferences, w))]
    /\ UNCHANGED <<videos, isLoaded, userPreferences, interactions, lastOp, lastRecs>>
    /\ UNCHANGED appVars

NextLibrary ==
    \/ \E i \in DOMAIN videos, j \in DOMAIN videos : CalculateVideoSimilarity(i, j)
    \/ \E i \in DOMAIN videos, j \in DOMAIN videos : CalculateTextSimilarity(i, j)
    \/ \E u \in Users, w \in Users : CalculateUserSimilarity(u, w)

SpecLibrary == InitLibrary /\ [][NextLibrary]_vars

-----------------------------------------------------------------------------
(* Text search: strings are TLA+ strings, handled as JavaScript handles them *)

\* String.prototype.includes
includes(s, w) == \E i \in 1..(Len(s) - Len(w) + 1) : SubSeq(s, i, i + Len(w) - 1) = w

Upper == "ABCDEFGHIJKLMNOPQRSTUVWXYZ"
Lower == "abcdefghijklmnopqrstuvwxyz"

LowerOf == [i \in 1..Len(Upper) |-> <<SubSeq(Upper, i, i), SubSeq(Lower, i, i)>>]
UpperLetters == {LowerOf[i][1] : i \in DOMAIN LowerOf}

lowerChar(c) ==
    IF c \in UpperLetters
    THEN LowerOf[CHOOSE i \in DOMAIN LowerOf : LowerOf[i][1] = c][2]
    ELSE c

\* String.prototype.toLowerCase
RECURSIVE toLowerCase(_)
toLowerCase(s) ==
    IF s = "" THEN "" ELSE lowerChar(SubSeq(s, 1, 1)) \o toLowerCase(SubSeq(s, 2, Len(s)))

\* String.prototype.split with a one-character separator
RECURSIVE split(_, _)
split(s, sep) ==
    IF \E i \in 1..Len(s) : SubSeq(s, i, i) = sep
    THEN <<SubSeq(s, 1, (CHOOSE k \in 1..Len(s) :
                            /\ SubSeq(s, k, k) = sep
                            /\ \A m \in 1..(k - 1) : SubSeq(s, m, m) # sep) - 1)>>
         \o split(SubSeq(s, (CHOOSE k \in 1..Len(s) :
                                /\ SubSeq(s, k, k) = sep
                                /\ \A m \in 1..(k - 1) : SubSeq(s, m, m) # sep) + 1, Len(s)), sep)
    ELSE <<s>>

\* Array.prototype.join
RECURSIVE join(_, _)
join(parts, sep) ==
    IF parts = <<>> THEN ""
    ELSE IF Len(parts) = 1 THEN parts[1]
    ELSE parts[1] \o sep \o join(Tail(parts), sep)

\* query.split(' ').filter(word => word.length > 0)
queryWords(query) == SelectSeq(split(query, " "), LAMBDA word : Len(word) > 0)

\* !query || query.trim().length === 0, for queries whose only white space is the blank
isBlank(query) == \A i \in 1..Len(query) : SubSeq(query, i, i) = " "

-----------------------------------------------------------------------------
(* Search catalogue: video objects as createVideoObject builds them, with  *)
(* text fields as strings and videoTags as the list of tags                *)

ST == [id |-> "T", title |-> "Enter now", description |-> "", channelName |-> "Ann",
       videoTags |-> <<"game">>, viewCount |-> 10, popularityScore |-> 1]
SS == [id |-> "S", title |-> "Walk", description |-> "enter here", channelName |-> "Bob",
       videoTags |-> <<"game">>, viewCount |-> 20, popularityScore |-> 2]
SH == [id |-> "H", title |-> "Walk", description |-> "", channelName |-> "Enter TV",
       videoTags |-> <<"game">>, viewCount |-> 30, popularityScore |-> 3]
SG == [id |-> "G", title |-> "Walk", description |-> "", channelName |-> "Bob",
       videoTags |-> <<>>, viewCount |-> 40, popularityScore |-> 4]
SF == [id |-> "F", title |-> "Fun enter", description |-> "fun", channelName |-> "Fun",
       videoTags |-> <<"fun", "enter">>, viewCount |-> 50, popularityScore |-> 5]
SN == [id |-> "N", title |-> "Walk", description |-> "", channelName |-> "Bob",
       videoTags |-> <<"game">>, viewCount |-> 60, popularityScore |-> 6]

SearchVideoObjects == {ST, SS, SH, SG, SF, SN}

\* the catalogues of SearchCatalogueSize different videos
SearchCatalogueSize == 3
SearchCatalogues ==
    {c \in [1..SearchCatalogueSize -> SearchVideoObjects] :
        \A i, j \in DOMAIN c : c[i] = c[j] => i = j}

SearchQueries == {"", " ", "enter", "Enter", "fun enter"}

-----------------------------------------------------------------------------
(* VideoDatabaseService.performSearch and what it calls *)

anyIncludes(text, needles) == \E n \in needles : includes(text, n)

\* the rules of categorizeVideo, in the order of its if statements
CategoryRules ==
    << [name |-> "Music", tags |-> {"music", "song", "album"},
        title |-> {"music video", "official video"}, channel |-> {"vevo", "music"}],
       [name |-> "Gaming", tags |-> {"gaming", "game", "playthrough"},
        title |-> {"gameplay", "gaming"}, channel |-> {"gaming", "games"}],
       [name |-> "News & Politics", tags |-> {"news", "politics", "breaking"},
        title |-> {"news", "breaking"}, channel |-> {"news", "cnn", "fox"}],
       [name |-> "Education", tags |-> {"education", "tutorial", "learn"},
        title |-> {"how to", "tutorial", "learn"}, channel |-> {"education", "tutorial"}],
       [name |-> "Science & Technology", tags |-> {"science", "tech", "technology"},
        title |-> {"science", "tech", "ai"}, channel |-> {"science", "tech"}],
       [name |-> "Sports", tags |-> {"sports", "football", "basketball"},
        title |-> {"sports", "nfl", "nba"}, channel |-> {"sports", "espn"}],
       [name |-> "Travel & Events", tags |-> {"travel", "vlog", "lifestyle"},
        title |-> {"travel", "vlog"}, channel |-> {"travel", "vlog"}],
       [name |-> "Howto & Style", tags |-> {"howto", "style", "beauty"},
        title |-> {"how to", "tutorial"}, channel |-> {"howto", "beauty"}],
       [name |-> "People & Blogs", tags |-> {"vlog", "blog", "personal"},
        title |-> {"vlog", "my"}, channel |-> {"vlog", "blog"}] >>

ruleApplies(rule, tags, title, channelName) ==
    \/ anyIncludes(tags, rule.tags)
    \/ anyIncludes(title, rule.title)
    \/ anyIncludes(channelName, rule.channel)

\* the first if statement whose condition holds returns; the default otherwise
firstRule(applying) ==
    IF applying = {} THEN "Entertainment & Comedy"
    ELSE CategoryRules[CHOOSE r \in applying : \A q \in applying : r <= q].name

applyingRules(tags, title, channelName) ==
    {r \in DOMAIN CategoryRules : ruleApplies(CategoryRules[r], tags, title, channelName)}

categorizeVideo(video) ==
    firstRule(applyingRules(toLowerCase(join(video.videoTags, " ")), toLowerCase(video.title),
                            toLowerCase(video.channelName)))

\* the keys of the category database, in the order createCategoryDatabase lists them
CategoryNames ==
    << "Entertainment & Comedy", "Gaming", "Music", "News & Politics", "Education",
       "Science & Technology", "Sports", "Travel & Events", "Howto & Style",
       "People & Blogs" >>

mapCategory(dbCategory) ==
    CASE dbCategory = "Entertainment & Comedy" -> "entertainment"
      [] dbCategory = "Gaming" -> "gaming"
      [] dbCategory = "Vlogs & Lifestyle" -> "travel"
      [] dbCategory = "Education & How-To" -> "tech"
      [] OTHER -> "entertainment"

\* transformVideos applied to one video of a category list
transformVideo(video, originalCategory) ==
    [id |-> video.id, caption |-> video.title, description |-> video.description,
     creator |-> video.channelName, category |-> mapCategory(originalCategory),
     originalCategory |-> originalCategory]

\* createCategoryDatabase: every video in app format, under its category
createCategoryDatabase(csvData) ==
    [i \in DOMAIN csvData |-> transformVideo(csvData[i], categorizeVideo(csvData[i]))]

\* one category list of the database
categoryList(database, name) ==
    AtIndices(database, {i \in DOMAIN database : database[i].originalCategory = name})

\* the category lists one after the other, in the order of the keys
allLists(database) ==
    Concat([c \in DOMAIN CategoryNames |-> categoryList(database, CategoryNames[c])])

getAllVideosSync(csvData) == allLists(createCategoryDatabase(csvData))

wordScore(caption, description, creator, category, word) ==
    (IF includes(caption, word) THEN 10 ELSE 0)
    + (IF includes(description, word) THEN 5 ELSE 0)
    + (IF includes(creator, word) THEN 2 ELSE 0)
    + (IF includes(category, word) THEN 1 ELSE 0)

\* the forEach over the query words
sumWords(caption, description, creator, category, words) ==
    SumSeq([w \in DOMAIN words |-> wordScore(caption, description, creator, category, words[w])])

\* Variant: a description match weighted above a title match.
relevanceDescriptionFirst(video, query) ==
    sumWords(toLowerCase(video.description), toLowerCase(video.caption),
             toLowerCase(video.creator), toLowerCase(video.category), queryWords(query))

calculateRelevanceScore(video, query) ==
    sumWords(toLowerCase(video.caption), toLowerCase(video.description),
             toLowerCase(video.creator), toLowerCase(video.category), queryWords(query))

sortByRelevance(list, query) ==
    SortDescBy(list, [i \in DOMAIN list |-> calculateRelevanceScore(list[i], query)])

searchableText(video) ==
    toLowerCase(join(<<video.caption, video.description, video.creator, video.category,
                       video.originalCategory>>, " "))

matchesQuery(text, lowerCaseQuery) ==
    \/ includes(text, lowerCaseQuery)
    \/ \E word \in Range(queryWords(lowerCaseQuery)) : includes(text, word)

filterResults(allVideos, lowerCaseQuery) ==
    AtIndices(allVideos, {i \in DOMAIN allVideos :
                            matchesQuery(searchableText(allVideos[i]), lowerCaseQuery)})

performSearch(csvData, query) ==
    IF isBlank(query) THEN getAllVideosSync(csvData)
    ELSE sortByRelevance(filterResults(getAllVideosSync(csvData), toLowerCase(query)),
                         toLowerCase(query))

-----------------------------------------------------------------------------
(* Backend search routes and the client hook *)

DefaultSearchLimit == 20
MaxSearchLimit == 100
SearchLimits == {1, DefaultSearchLimit}
SearchPages == {1, 2}

BadRequest == [status |-> 400, error |-> "Search query is required", videos |-> <<>>, total |-> 0]
NotFound == [status |-> 404, error |-> "CSV file not found", videos |-> <<>>, total |-> 0]
ServerError == [status |-> 500, error |-> "Failed to search videos", videos |-> <<>>, total |-> 0]
Ok(list, total) == [status |-> 200, error |-> "", videos |-> list, total |-> total]

\* a row as the server-side parseCSV returns it, keyed by the CSV headers
parseCSVRow(video) ==
    [video_id |-> video.id, title |-> video.title, description |-> video.description,
     channelTitle |-> video.channelName, tags |-> join(video.videoTags, ",")]

countIncluded(text, searchWords) ==
    Cardinality({w \in DOMAIN searchWords : includes(text, searchWords[w])})

fieldScore(title, description, channel, tags, searchTerm, searchWords) ==
    (IF includes(title, searchTerm) THEN 100 ELSE 0)
    + 50 * countIncluded(title, searchWords)
    + (IF includes(channel, searchTerm) THEN 30 ELSE 0)
    + 10 * countIncluded(description, searchWords)
    + 20 * countIncluded(tags, searchWords)

\* Variant: the tag matches never counted.
scoreWithoutTags(video, searchTerm) ==
    [id |-> video.video_id,
     relevanceScore |->
         fieldScore(toLowerCase(video.title), toLowerCase(video.description),
                    toLowerCase(video.channelTitle), "", searchTerm,
                    queryWords(searchTerm))]

scoreVideo(video, searchTerm) ==
    [id |-> video.video_id,
     relevanceScore |->
         fieldScore(toLowerCase(video.title), toLowerCase(video.description),
                    toLowerCase(video.channelTitle), toLowerCase(video.tags), searchTerm,
                    queryWords(searchTerm))]

\* .filter(video => video.relevanceScore > 0).sort((a, b) => b.relevanceScore - a.relevanceScore)
sortByScore(list) == SortDescBy(list, [i \in DOMAIN list |-> list[i].relevanceScore])

filteredVideos(scoredVideos) ==
    sortByScore(AtIndices(scoredVideos, {i \in DOMAIN scoredVideos :
                                           scoredVideos[i].relevanceScore > 0}))

\* filteredVideos.slice(offset, offset + limitNum)
paginate(list, limitNum, offset) ==
    SubSeq(list, offset + 1, Min(offset + limitNum, Len(list)))

\* res.json({ videos: paginatedVideos, pagination: { ..., total } })
respond(list, limitNum, offset) == Ok(paginate(list, limitNum, offset), Len(list))

scoredVideos(allVideos, searchTerm) ==
    [i \in DOMAIN allVideos |-> scoreVideo(parseCSVRow(allVideos[i]), searchTerm)]

\* GET /api/csv/search
csvSearch(csvData, fileExists, searchQuery, limit, page) ==
    IF isBlank(searchQuery) THEN BadRequest
    ELSE IF ~fileExists THEN NotFound
    ELSE respond(filteredVideos(scoredVideos(csvData, toLowerCase(searchQuery))),
                 Min(limit, MaxSearchLimit), (page - 1) * Min(limit, MaxSearchLimit))

ilike(text, searchQuery) == includes(toLowerCase(text), toLowerCase(searchQuery))

\* WHERE title ILIKE $1 OR description ILIKE $1 OR channel_name ILIKE $1 OR $2 = ANY(video_tags)
whereClause(video, searchQuery) ==
    \/ ilike(video.title, searchQuery)
    \/ ilike(video.description, searchQuery)
    \/ ilike(video.channelName, searchQuery)
    \/ searchQuery \in Range(video.videoTags)

\* ORDER BY the relevance sum DESC, view_count DESC (the view counts of the
\* table differ, so the order is determined); view counts stay below 1000.
orderKey(video, searchQuery) ==
    1000 * ((IF ilike(video.title, searchQuery) THEN 3 ELSE 0)
            + (IF ilike(video.description, searchQuery) THEN 2 ELSE 0)
            + (IF ilike(video.channelName, searchQuery) THEN 1 ELSE 0))
    + video.viewCount

selected(table, searchQuery) ==
    AtIndices(table, {i \in DOMAIN table : whereClause(table[i], searchQuery)})

ordered(rows, searchQuery) ==
    SortDescBy([i \in DOMAIN rows |-> [id |-> rows[i].id]],
               [i \in DOMAIN rows |-> orderKey(rows[i], searchQuery)])

\* GET /api/search with the default sort and no category filter
search(table, dbUp, searchQuery, limit, page) ==
    IF isBlank(searchQuery) THEN BadRequest
    ELSE IF ~dbUp THEN ServerError
    ELSE respond(ordered(selected(table, searchQuery), searchQuery),
                 Min(limit, MaxSearchLimit), (page - 1) * limit)

\* useVideoSearch.searchVideos over apiService.searchVideos: request throws on a
\* network failure and on every answer that is not ok.
afterRequest(resp, answer) ==
    IF resp = "network" \/ answer.status # 200
    THEN [status |-> 0, error |-> "Search failed - please try again", videos |-> <<>>]
    ELSE [status |-> 0, error |-> "", videos |-> answer.videos]

hookSearchVideos(table, dbUp, resp, query) ==
    afterRequest(resp, search(table, dbUp, query, DefaultSearchLimit, 1))

-----------------------------------------------------------------------------
(* Specification of the search entry points *)

InitSearch ==
    /\ videos \in SearchCatalogues
    /\ isLoaded = TRUE
    /\ userPreferences = <<>>
    /\ interactions = 0
    /\ lastOp = NoOp
    /\ lastRecs = NoRecs
    /\ lastOut = NoOut
    /\ InitAppState

SearchCall(op, query, limit, page, answer) ==
    /\ lastOut = NoOut
    /\ lastOut' = [op |-> op, query |-> query, limit |-> limit, page |-> page,
                   status |-> answer.status, error |-> answer.error, items |-> answer.videos]
    /\ UNCHANGED <<videos, isLoaded, userPreferences, interactions, lastOp, lastRecs>>
    /\ UNCHANGED appVars

\* performSearch is called in process: it returns a list or throws
PerformSearch(query) ==
    SearchCall("performSearch", query, 0, 0,
               [status |-> 0, error |-> "", videos |-> performSearch(videos, query)])

CsvSearchRoute(query, limit, page, fileExists) ==
    SearchCall("csvSearch", query, limit, page, csvSearch(videos, fileExists, query, limit, page))

SearchRoute(query, limit, page, dbUp) ==
    SearchCall("search", query, limit, page, search(videos, dbUp, query, limit, page))

HookSearchVideos(query, resp, dbUp) ==
    SearchCall("hook", query, DefaultSearchLimit, 1, hookSearchVideos(videos, dbUp, resp, query))

NextSearch ==
    \/ \E q \in SearchQueries : PerformSearch(q)
    \/ \E q \in SearchQueries, l \in SearchLimits, p \in SearchPages, f \in BOOLEAN :
          CsvSearchRoute(q, l, p, f)
    \/ \E q \in SearchQueries, l \in SearchLimits, p \in SearchPages, d \in BOOLEAN :
          SearchRoute(q, l, p, d)
    \/ \E q \in SearchQueries, r \in {"ok", "network"}, d \in BOOLEAN :
          HookSearchVideos(q, r, d)

SpecSearch == InitSearch /\ [][NextSearch]_vars

-----------------------------------------------------------------------------
(* Properties of the preference store (SpecPrefs) *)

\* C1: for every user, no video id is in both likedVideos and dislikedVideos:
\* a like removes the id from dislikedVideos and a dislike removes it from
\* likedVideos.
C1_LikedDislikedDisjoint ==
    \A i \in DOMAIN userPreferences :
        Range(userPreferences[i].likedVideos) \cap userPreferences[i].dislikedVideos = {}

\* C5: after addUserPreference(u, v, 'unlike', _) the id v is not in u's
\* likedVideos, after addUserPreference(u, v, 'undislike', _) it is not in u's
\* dislikedVideos, and neither action changes u's stored preference for v.
C5_UnlikeUndislikeRemove ==
    LET u == lastOp.userId
        v == lastOp.videoId
        prefOf(up) == IF has(up, u) /\ v \in DOMAIN get(up, u).preferences
                      THEN <<get(up, u).preferences[v]>> ELSE <<>>
    IN  /\ lastOp.action = "unlike" =>
              /\ v \notin liked(userPreferences, u)
              /\ prefOf(userPreferences) = prefOf(lastOp.before)
        /\ lastOp.action = "undislike" =>
              /\ v \notin disliked(userPreferences, u)
              /\ prefOf(userPreferences) = prefOf(lastOp.before)

-----------------------------------------------------------------------------
(* Properties of the recommenders (SpecEngine) *)

\* C2: getHybridRecommendations(userId, limit) computes its content-based list
\* with the user's first liked video as the reference video, and uses the
\* popularity fallback for that list only when the user has no liked video.
C2_HybridUsesFirstLiked ==
    lastOut.op = "hybrid" =>
        LET u == lastOut.arg
            l == lastOut.limit
            contentList ==
                IF liked(userPreferences, u) = {}
                THEN getPopularRecommendations(videos, l * 2)
                ELSE getContentBasedRecommendations(
                         videos, Head(get(userPreferences, u).likedVideos), l * 2)
        IN  lastOut.items =
                combineRecs(getCollaborativeRecommendations(videos, userPreferences, u, l * 2),
                            contentList, l)

\* C6: for a user with zero liked videos (a user with no profile included),
\* collaborative recommend returns exactly the list the popularity fallback
\* returns for the same catalogue and limit.
C6_CollaborativeNoLikesIsPopular ==
    (lastOut.op = "collaborative" /\ liked(userPreferences, lastOut.arg) = {}) =>
        lastOut.items = getPopularRecommendations(videos, lastOut.limit)

C6_Witness ==
    /\ lastOut.op = "collaborative"
    /\ has(userPreferences, lastOut.arg)
    /\ liked(userPreferences, lastOut.arg) = {}
    /\ \E w \in Users : liked(userPreferences, w) # {}
    /\ Len(lastOut.items) = 2

\* C8: content-based recommend with a reference video id that is not in the
\* catalogue returns the popularity fallback list for the same limit (and so
\* returns a list, not an error).
C8_ContentUnknownReferenceIsPopular ==
    (lastOut.op = "content" /\ ~inCatalogue(videos, lastOut.arg)) =>
        lastOut.items = getPopularRecommendations(videos, lastOut.limit)

C8_Witness ==
    /\ lastOut.op = "content"
    /\ ~inCatalogue(videos, lastOut.arg)
    /\ Len(lastOut.items) = 2

\* C9 (as stated): the popularity fallback returns the min(limit, N) catalogue
\* videos ordered by non-increasing popularityScore, and no other field
\* influences the order.
C9_PopularByPopularityScore ==
    lastOut.op = "popular" =>
        LET items == lastOut.items
            ids == {items[i].id : i \in DOMAIN items}
            key(id) == find(videos, id).popularityScore
        IN  /\ Len(items) = Min(lastOut.limit, Len(videos))
            /\ \A i \in DOMAIN items : inCatalogue(videos, items[i].id)
            /\ \A i, j \in DOMAIN items : i < j => key(items[i].id) >= key(items[j].id)
            /\ \A k \in DOMAIN videos : videos[k].id \notin ids =>
                  \A i \in DOMAIN items : key(items[i].id) >= videos[k].popularityScore

\* C9 (amended): the popularity fallback returns the min(limit, N) catalogue
\* videos ordered by non-increasing 0.4 * trendingScore + 0.6 * popularityScore,
\* each carrying that value as its recommendationScore.
C9_PopularByCombinedScore ==
    lastOut.op = "popular" =>
        LET items == lastOut.items
            ids == {items[i].id : i \in DOMAIN items}
            combined(v) == ((4 * v.trendingScore + 6 * v.popularityScore) * ScoreUnit) \div 10
        IN  /\ Len(items) = Min(lastOut.limit, Len(videos))
            /\ \A i \in DOMAIN items :
                  /\ inCatalogue(videos, items[i].id)
                  /\ items[i].recommendationScore = combined(find(videos, items[i].id))
            /\ \A i, j \in DOMAIN items :
                  i < j => /\ items[i].id # items[j].id
                           /\ items[i].recommendationScore >= items[j].recommendationScore
            /\ \A k \in DOMAIN videos : videos[k].id \notin ids =>
                  \A i \in DOMAIN items : items[i].recommendationScore >= combined(videos[k])

\* A fallback list in which trendingScore puts a video above a more popular one.
C9_Witness ==
    /\ lastOut.op = "popular"
    /\ Len(lastOut.items) = 2
    /\ Len(videos) > 2
    /\ find(videos, lastOut.items[1].id).popularityScore
         < find(videos, lastOut.items[2].id).popularityScore

\* C10: in the hybrid result a video in both the collaborative and the
\* content-based list scores 0.6 * collaborativeScore + 0.4 * contentScore, a
\* video in only one list scores that list's term alone, each id appears at
\* most once, and the result is the top `limit` by non-increasing combined score.
C10_HybridMerge ==
    lastOut.op = "hybrid" =>
        LET items == lastOut.items
            l == lastOut.limit
            collab == getCollaborativeRecommendations(videos, userPreferences, lastOut.arg, l * 2)
            content == hybridContentList(videos, userPreferences, lastOut.arg, l)
            idsOf(list) == {list[i].id : i \in DOMAIN list}
            term(list, id, weight) ==
                IF id \in idsOf(list)
                THEN (weight * list[CHOOSE i \in DOMAIN list : list[i].id = id].recommendationScore)
                         \div 10
                ELSE 0
            combined(id) == term(collab, id, 6) + term(content, id, 4)
            candidates == idsOf(collab) \cup idsOf(content)
        IN  /\ Len(items) = Min(l, Cardinality(candidates))
            /\ \A i \in DOMAIN items :
                  /\ items[i].id \in candidates
                  /\ items[i].recommendationScore = combined(items[i].id)
            /\ \A i, j \in DOMAIN items :
                  i < j => /\ items[i].id # items[j].id
                           /\ items[i].recommendationScore >= items[j].recommendationScore
            /\ \A id \in candidates \ idsOf(items) :
                  \A i \in DOMAIN items : items[i].recommendationScore >= combined(id)

\* A hybrid result holding a video of both lists next to a video of one list
\* only, with a candidate left out by the limit.
C10_Witness ==
    /\ lastOut.op = "hybrid"
    /\ LET l == lastOut.limit
           collab == getCollaborativeRecommendations(videos, userPreferences, lastOut.arg, l * 2)
           content == hybridContentList(videos, userPreferences, lastOut.arg, l)
           inCollab == {collab[i].id : i \in DOMAIN collab}
           inContent == {content[i].id : i \in DOMAIN content}
           shown == {lastOut.items[i].id : i \in DOMAIN lastOut.items}
       IN  /\ \E i \in DOMAIN collab : collab[i].recommendationScore > 0
           /\ shown \cap inCollab \cap inContent # {}
           /\ shown \cap (inContent \ inCollab) # {}
           /\ (inCollab \cup inContent) \ shown # {}

-----------------------------------------------------------------------------
(* Properties of the service (Spec) *)

\* C3: two getRecommendations calls with the same user, strategy and limit (and
\* the same backend availability), with no interaction recorded between them,
\* whatever popular, trending, random or search requests are served in
\* between, return the same video ids in the same order.
C3_RepeatedCallSameList ==
    [][(/\ lastRecs.type # "none"
        /\ lastRecs'.type # "none"
        /\ lastRecs'.userId = lastRecs.userId
        /\ lastRecs'.type = lastRecs.type
        /\ lastRecs'.count = lastRecs.count
        /\ lastRecs'.apiFailed = lastRecs.apiFailed)
          => lastRecs'.items = lastRecs.items]_vars

\* C4: every recommendation, popularity, trending, random-discovery and search
\* call leaves the loaded catalogue unchanged: the sequence of video records
\* (contents and order) is the same before and after the call.
C4_LoadedCatalogueUnchanged ==
    [][isLoaded => videos' = videos]_vars

-----------------------------------------------------------------------------
(* Further properties of the preference store (SpecPrefs) *)

\* C17: addUserPreference(u, v, action, score) sets the stored preference of v
\* to max(score, previous) for 'like', max(score * 0.5, previous) for 'view',
\* max(score * 1.5, previous) for 'share' and min(-score, previous) for
\* 'dislike', previous being the value before the call, 0 when none is
\* recorded; so like / view / share never lower it and dislike never raises it.
\* (Stored values count halves.)
C17_PreferenceArithmetic ==
    lastOp.action \in {"like", "view", "share", "dislike"} =>
        LET u == lastOp.userId
            v == lastOp.videoId
            previous == IF has(lastOp.before, u) /\ v \in DOMAIN get(lastOp.before, u).preferences
                        THEN get(lastOp.before, u).preferences[v]
                        ELSE 0
            offered == CASE lastOp.action = "like" -> 2 * lastOp.score
                         [] lastOp.action = "view" -> lastOp.score
                         [] lastOp.action = "share" -> 3 * lastOp.score
                         [] lastOp.action = "dislike" -> (-2) * lastOp.score
        IN  /\ has(userPreferences, u)
            /\ v \in DOMAIN get(userPreferences, u).preferences
            /\ get(userPreferences, u).preferences[v] \in {offered, previous}
            /\ IF lastOp.action = "dislike"
               THEN /\ get(userPreferences, u).preferences[v] <= offered
                    /\ get(userPreferences, u).preferences[v] <= previous
               ELSE /\ get(userPreferences, u).preferences[v] >= offered
                    /\ get(userPreferences, u).preferences[v] >= previous

\* A like with score 2 of a video already liked with score 8: the 8 stays.
C17_Witness ==
    /\ lastOp.action = "like"
    /\ lastOp.score = 2
    /\ has(lastOp.before, lastOp.userId)
    /\ lastOp.videoId \in DOMAIN get(lastOp.before, lastOp.userId).preferences
    /\ get(lastOp.before, lastOp.userId).preferences[lastOp.videoId] = 2 * 8
    /\ get(userPreferences, lastOp.userId).preferences[lastOp.videoId] = 2 * 8

\* C18: addUserPreference with an action outside {like, dislike, unlike,
\* undislike, view, share} leaves the whole store unchanged: the known user
\* profiles, every profile's four sets and every stored preference.
C18_UnknownActionNoOp ==
    (/\ lastOp.action # "none"
     /\ lastOp.action \notin {"like", "dislike", "unlike", "undislike", "view", "share"})
        => userPreferences = lastOp.before

-----------------------------------------------------------------------------
(* Further properties of the recommenders (SpecEngine) *)

\* C13: content-based recommend with a reference video present in a catalogue
\* of N videos returns min(limit, N - 1) videos, never the reference itself,
\* ordered by non-increasing videoSimilarity to the reference, equal
\* similarities in catalogue order, each scored with that similarity; with A
\* and B sharing channel and tags and D sharing neither, reference A and
\* limit 2 give [B, D].
C13_ContentBasedRanking ==
    (lastOut.op = "content" /\ inCatalogue(videos, lastOut.arg)) =>
        LET items == lastOut.items
            reference == find(videos, lastOut.arg)
            position(id) == CHOOSE k \in DOMAIN videos : videos[k].id = id
            sim(id) == calculateVideoSimilarity(reference, find(videos, id))
            before(a, b) == sim(a) > sim(b) \/ (sim(a) = sim(b) /\ position(a) < position(b))
            shown == {items[i].id : i \in DOMAIN items}
        IN  /\ Len(items) = Min(lastOut.limit, Len(videos) - 1)
            /\ \A i \in DOMAIN items :
                  /\ items[i].id # lastOut.arg
                  /\ inCatalogue(videos, items[i].id)
                  /\ items[i].recommendationScore = sim(items[i].id)
            /\ \A i, j \in DOMAIN items : i < j => before(items[i].id, items[j].id)
            /\ \A k \in DOMAIN videos :
                  (videos[k].id # lastOut.arg /\ videos[k].id \notin shown) =>
                      \A i \in DOMAIN items : before(items[i].id, videos[k].id)
            /\ (videos = <<VA, VB, VD>> /\ lastOut.arg = "A" /\ lastOut.limit = 2) =>
                  [i \in DOMAIN items |-> items[i].id] = <<"B", "D">>

\* Two videos equally similar to the reference, the limit keeping the one that
\* comes first in the catalogue.
C13_Witness ==
    /\ lastOut.op = "content"
    /\ videos = <<VA, VB, VE>>
    /\ lastOut.arg = "A"
    /\ lastOut.limit = 1
    /\ calculateVideoSimilarity(VA, VB) = calculateVideoSimilarity(VA, VE)
    /\ [i \in DOMAIN lastOut.items |-> lastOut.items[i].id] = <<"B">>

-----------------------------------------------------------------------------
(* Properties of the collaborative recommender (SpecCollab) *)

\* C11: in collaborative recommend for a user with at least one like, the
\* score of each returned video is the sum, over every other user whose
\* liked-set Jaccard similarity to the target is strictly positive and who
\* liked that video, of that similarity; the videos are returned in
\* non-increasing order of that score.
C11_CollaborativeScoreIsSum ==
    (lastOut.op = "collaborative" /\ liked(userPreferences, lastOut.arg) # {}) =>
        LET items == lastOut.items
            mine == liked(userPreferences, lastOut.arg)
            jaccard(other) ==
                (Cardinality(mine \cap Range(other.likedVideos)) * ScoreUnit)
                    \div Cardinality(mine \cup Range(other.likedVideos))
            contribution(other, id) ==
                IF /\ other.userId # lastOut.arg
                   /\ jaccard(other) > 0
                   /\ id \in Range(other.likedVideos)
                THEN jaccard(other) ELSE 0
            total(id) == SumSeq([w \in DOMAIN userPreferences |->
                                   contribution(userPreferences[w], id)])
        IN  /\ \A i \in DOMAIN items : items[i].recommendationScore = total(items[i].id)
            /\ \A i, j \in DOMAIN items :
                  i < j => items[i].recommendationScore >= items[j].recommendationScore

\* Two other users, each half similar to the target, liked the same video: it
\* is returned with the two similarities added up.
C11_Witness ==
    /\ lastOut.op = "collaborative"
    /\ lastOut.arg = "u1"
    /\ liked(userPreferences, "u1") = {"A"}
    /\ liked(userPreferences, "u2") = {"A", "B"}
    /\ liked(userPreferences, "u3") = {"A", "B"}
    /\ Len(lastOut.items) = 1
    /\ lastOut.items[1].id = "B"
    /\ lastOut.items[1].recommendationScore = 2 * (ScoreUnit \div 2)

\* C12: for a user with at least one like, no video returned by collaborative
\* recommend is in that user's likedVideos or dislikedVideos.
C12_CollaborativeExcludesRated ==
    (lastOut.op = "collaborative" /\ liked(userPreferences, lastOut.arg) # {}) =>
        \A i \in DOMAIN lastOut.items :
            /\ lastOut.items[i].id \notin liked(userPreferences, lastOut.arg)
            /\ lastOut.items[i].id \notin disliked(userPreferences, lastOut.arg)

\* A similar user liked a video the target disliked and one the target has
\* not rated: only the unrated one is returned.
C12_Witness ==
    /\ lastOut.op = "collaborative"
    /\ lastOut.arg = "u2"
    /\ liked(userPreferences, "u2") = {"A"}
    /\ disliked(userPreferences, "u2") = {"B"}
    /\ liked(userPreferences, "u1") = {"A", "B"}
    /\ liked(userPreferences, "u3") = {"A", "D"}
    /\ videos = <<VA, VB, VD>>
    /\ [i \in DOMAIN lastOut.items |-> lastOut.items[i].id] = <<"D">>

-----------------------------------------------------------------------------
(* Properties of calculateVideoSimilarity (SpecSimilarity) *)

\* C19: videoSimilarity(a, b) = videoSimilarity(b, a) for every pair of video
\* records a, b.
C19_VideoSimilaritySymmetric ==
    lastOut.op = "similarity" =>
        lastOut.value = calculateVideoSimilarity(videos[lastOut.second], videos[lastOut.first])

\* Two records that differ in channel, tags (one a strict subset of the
\* other), title and engagement, compared in one order.
C19_Witness ==
    /\ lastOut.op = "similarity"
    /\ lastOut.first # lastOut.second
    /\ videos[lastOut.first].videoTags = {"x"}
    /\ videos[lastOut.second].videoTags = {"x", "y"}
    /\ videos[lastOut.first].title # videos[lastOut.second].title
    /\ videos[lastOut.first].engagementRate # videos[lastOut.second].engagementRate
    /\ lastOut.value > 0

\* C20 as stated: for every video record v of the catalogue,
\* videoSimilarity(v, v) = 1.
C20_SelfSimilarityIsOne ==
    (lastOut.op = "similarity" /\ lastOut.first = lastOut.second) =>
        lastOut.value = ScoreUnit

\* C20 as it holds: videoSimilarity(v, v) = 1 for every video record v with at
\* least one tag, and 0.7 for every video record v without tags.
C20_SelfSimilarityByTags ==
    (lastOut.op = "similarity" /\ lastOut.first = lastOut.second) =>
        lastOut.value = IF videos[lastOut.first].videoTags # {}
                        THEN ScoreUnit
                        ELSE (7 * ScoreUnit) \div 10

\* A record with tags and a record without tags, each compared to itself.
C20_Witness ==
    /\ lastOut.op = "similarity"
    /\ lastOut.first = lastOut.second
    /\ videos[lastOut.first].videoTags = {"x", "y"}
    /\ videos[3 - lastOut.first].videoTags = {}
    /\ lastOut.value = ScoreUnit

-----------------------------------------------------------------------------
(* Properties of the search entry points (SpecSearch) *)

\* C14: a search with an empty or whitespace-only query never yields an error
\* at any search entry point (the client hook, performSearch, the wire-level
\* search endpoints); it returns the default popularity ordering of the
\* catalogue.
C14_BlankQueryNeverErrors ==
    (lastOut.op \in {"performSearch", "csvSearch", "search", "hook"} /\ isBlank(lastOut.query)) =>
        /\ lastOut.error = ""
        /\ lastOut.status \in {0, 200}
        /\ [i \in DOMAIN lastOut.items |-> lastOut.items[i].id]
              = [i \in DOMAIN videos |->
                   SortDescBy(videos, [k \in DOMAIN videos |-> videos[k].popularityScore])[i].id]

\* C15: under the caption-weighted preset each query word contributes 10 if it
\* occurs in the title, 5 if in the description, 2 if in the channel name and
\* 1 if in the category; results come in non-increasing score order, so for a
\* one-word query a video matching only in its title ranks strictly above one
\* matching only in its description, which ranks strictly above channel-only,
\* which ranks strictly above category-only; every score is >= 0.
C15_CaptionWeightedRanking ==
    (lastOut.op = "performSearch" /\ ~isBlank(lastOut.query)) =>
        LET items == lastOut.items
            words == queryWords(toLowerCase(lastOut.query))
            fields(v) == <<toLowerCase(v.caption), toLowerCase(v.description),
                           toLowerCase(v.creator), toLowerCase(v.category)>>
            weights == <<10, 5, 2, 1>>
            hits(v, word) == {f \in 1..4 : includes(fields(v)[f], word)}
            contribution(v, word) == SumSeq([f \in 1..4 |->
                                        IF f \in hits(v, word) THEN weights[f] ELSE 0])
            score(v) == SumSeq([w \in DOMAIN words |-> contribution(v, words[w])])
        IN  /\ \A i \in DOMAIN items :
                  /\ score(items[i]) = calculateRelevanceScore(items[i], toLowerCase(lastOut.query))
                  /\ score(items[i]) >= 0
            /\ \A i, j \in DOMAIN items : i < j => score(items[i]) >= score(items[j])
            /\ Len(words) = 1 =>
                  \A i, j \in DOMAIN items : \A f, g \in 1..4 :
                      (hits(items[i], words[1]) = {f} /\ hits(items[j], words[1]) = {g} /\ f < g)
                          => (i < j /\ score(items[i]) > score(items[j]))

\* A one-word query that one video matches in its title only, one in its
\* description only and one in its category only, listed in that order
\* although the database lists them the other way round.
C15_Witness ==
    /\ lastOut.op = "performSearch"
    /\ lastOut.query = "Enter"
    /\ videos = <<SS, SG, ST>>
    /\ [i \in DOMAIN lastOut.items |-> lastOut.items[i].id] = <<"T", "S", "G">>

\* C16 as stated: under the field-weighted preset a video's score is 100 if
\* the title contains the full lower-cased query, plus 50 per query word in
\* the title, plus 30 if the channel name contains the full query, plus 10 per
\* query word in the description, plus 20 per query word in the tags; the
\* response contains exactly the videos with score > 0, in non-increasing
\* score order.
C16_ResponseHoldsEveryMatch ==
    (lastOut.op = "csvSearch" /\ lastOut.status = 200) =>
        LET items == lastOut.items
            term == toLowerCase(lastOut.query)
            words == queryWords(term)
            per(text, points) == points * Cardinality({w \in DOMAIN words :
                                                          includes(toLowerCase(text), words[w])})
            whole(text, points) == IF includes(toLowerCase(text), term) THEN points ELSE 0
            score(v) == whole(v.title, 100) + per(v.title, 50) + whole(v.channelName, 30)
                        + per(v.description, 10) + per(join(v.videoTags, ","), 20)
            matching == {k \in DOMAIN videos : score(videos[k]) > 0}
        IN  /\ {items[i].id : i \in DOMAIN items} = {videos[k].id : k \in matching}
            /\ Len(items) = Cardinality(matching)
            /\ \A i \in DOMAIN items : \E k \in matching :
                  videos[k].id = items[i].id /\ items[i].relevanceScore = score(videos[k])
            /\ \A i, j \in DOMAIN items :
                  i < j => items[i].relevanceScore >= items[j].relevanceScore

\* C16 as it holds: the scores are as stated, and the response contains the
\* requested page of the videos with score > 0 taken in non-increasing score
\* order: with limitNum = min(limit, 100) and offset = (page - 1) * limitNum,
\* the entries offset + 1 .. offset + limitNum of that order, as far as they exist.
C16_ResponseHoldsPageOfMatches ==
    (lastOut.op = "csvSearch" /\ lastOut.status = 200) =>
        LET items == lastOut.items
            term == toLowerCase(lastOut.query)
            words == queryWords(term)
            per(text, points) == points * Cardinality({w \in DOMAIN words :
                                                          includes(toLowerCase(text), words[w])})
            whole(text, points) == IF includes(toLowerCase(text), term) THEN points ELSE 0
            score(v) == whole(v.title, 100) + per(v.title, 50) + whole(v.channelName, 30)
                        + per(v.description, 10) + per(join(v.videoTags, ","), 20)
            matching == {k \in DOMAIN videos : score(videos[k]) > 0}
            limitNum == Min(lastOut.limit, 100)
            offset == (lastOut.page - 1) * limitNum
            above(points) == Cardinality({k \in matching : score(videos[k]) > points})
            atLeast(points) == Cardinality({k \in matching : score(videos[k]) >= points})
        IN  /\ Len(items) = Max(0, Min(limitNum, Cardinality(matching) - offset))
            /\ \A i, j \in DOMAIN items : items[i].id = items[j].id => i = j
            /\ \A i \in DOMAIN items :
                  /\ \E k \in matching :
                        videos[k].id = items[i].id /\ items[i].relevanceScore = score(videos[k])
                  /\ above(items[i].relevanceScore) <= offset + i - 1
                  /\ atLeast(items[i].relevanceScore) >= offset + i
            /\ \A i, j \in DOMAIN items :
                  i < j => items[i].relevanceScore >= items[j].relevanceScore

\* Three videos match a two-word query; the second page of size one holds the
\* second best of them only.
C16_Witness ==
    /\ lastOut.op = "csvSearch"
    /\ lastOut.status = 200
    /\ lastOut.query = "fun enter"
    /\ lastOut.limit = 1
    /\ lastOut.page = 2
    /\ videos = <<SS, ST, SF>>
    /\ lastOut.items = <<[id |-> "T", relevanceScore |-> 50]>>

-----------------------------------------------------------------------------
(* Properties of the similarity functions (SpecLibrary) *)

C22_UserSimilarityIsLikedJaccard ==
    lastOut.op = "userSimilarity" =>
        LET likedA == liked(userPreferences, lastOut.first)
            likedB == liked(userPreferences, lastOut.second)
        IN  /\ likedA \cup likedB # {} =>
                  lastOut.value * Cardinality(likedA \cup likedB)
                      = Cardinality(likedA \cap likedB) * ScoreUnit
            /\ likedA \cup likedB = {} => lastOut.value = 0
            /\ (likedA = likedB /\ likedA # {}) => lastOut.value = ScoreUnit

\* Two users who liked overlapping videos, one of whom also viewed a video the
\* other liked.
C22_Witness ==
    /\ lastOut.op = "userSimilarity"
    /\ lastOut.first = "u1"
    /\ lastOut.second = "u2"
    /\ liked(userPreferences, "u1") = {"A", "B"}
    /\ liked(userPreferences, "u2") = {"A"}
    /\ get(userPreferences, "u2").viewedVideos = {"B"}
    /\ lastOut.value = ScoreUnit \div 2

-----------------------------------------------------------------------------
(* Further properties of the collaborative recommender (SpecCollab) *)

\* C25: over a non-empty catalogue with limit >= 1, collaborative recommend
\* for a user who has liked videos but for whom no other user has positive
\* similarity, or for whom no candidate video remains, returns the popularity
\* fallback rather than an empty list.
C25_NoCandidatesIsPopular ==
    LET mine == liked(userPreferences, lastOut.arg)
        rated == mine \cup disliked(userPreferences, lastOut.arg)
        similar == {w \in DOMAIN userPreferences :
                      /\ userPreferences[w].userId # lastOut.arg
                      /\ Range(userPreferences[w].likedVideos) \cap mine # {}}
        candidates == UNION {Range(userPreferences[w].likedVideos) \ rated : w \in similar}
    IN  (/\ lastOut.op = "collaborative"
         /\ mine # {}
         /\ Len(videos) > 0
         /\ lastOut.limit >= 1
         /\ candidates = {}) =>
            /\ lastOut.items # <<>>
            /\ lastOut.items = getPopularRecommendations(videos, lastOut.limit)

\* C29: for a user with at least one liked video, collaborative recommend
\* returns min(limit, k) videos, where k is the number of scored candidates
\* whose id exists in the catalogue: candidates missing from the catalogue
\* take up none of the `limit` result slots.
C29_MissingCandidatesTakeNoSlot ==
    LET mine == liked(userPreferences, lastOut.arg)
        rated == mine \cup disliked(userPreferences, lastOut.arg)
        similar == {w \in DOMAIN userPreferences :
                      /\ userPreferences[w].userId # lastOut.arg
                      /\ Range(userPreferences[w].likedVideos) \cap mine # {}}
        candidates == UNION {Range(userPreferences[w].likedVideos) \ rated : w \in similar}
        k == Cardinality({id \in candidates : inCatalogue(videos, id)})
    IN  (lastOut.op = "collaborative" /\ mine # {}) =>
            Len(lastOut.items) = Min(lastOut.limit, k)

-----------------------------------------------------------------------------
(* Interactions and the lazy load (Spec) *)

\* C26: every interaction passed to addUserInteraction is applied to the local
\* preference store, whether it arrives before or after the lazy load that
\* creates the recommendation engine: once an interaction has been passed, the
\* store holds a profile (addUserPreference creates one for every user it is
\* called with).
C26_EveryInteractionApplied ==
    interactions >= 1 => userPreferences # <<>>

-----------------------------------------------------------------------------
(* Ingestion: createVideoObject on one parsed CSV row (SpecIngest)         *)

Digits == "0123456789"

isDigit(c) == \E i \in 1..Len(Digits) : SubSeq(Digits, i, i) = c

digitValue(c) == (CHOOSE i \in 1..Len(Digits) : SubSeq(Digits, i, i) = c) - 1

\* The value of the longest run of digits at the front of s, after the digits
\* already read (acc); seen tells whether a digit has been read.
RECURSIVE digitsPrefix(_, _, _)
digitsPrefix(s, acc, seen) ==
    IF Len(s) > 0 /\ isDigit(SubSeq(s, 1, 1))
    THEN digitsPrefix(SubSeq(s, 2, Len(s)), 10 * acc + digitValue(SubSeq(s, 1, 1)), TRUE)
    ELSE [nan |-> ~seen, value |-> acc]

RECURSIVE trimStart(_)
trimStart(s) ==
    IF Len(s) > 0 /\ SubSeq(s, 1, 1) = " " THEN trimStart(SubSeq(s, 2, Len(s))) ELSE s

\* parseInt(string): leading blanks are skipped, one sign is read, then the
\* longest run of decimal digits; NaN when no digit is found.
parseInt(raw) ==
    LET s == trimStart(raw)
        signed == Len(s) > 0 /\ SubSeq(s, 1, 1) \in {"-", "+"}
        body == IF signed THEN SubSeq(s, 2, Len(s)) ELSE s
        p == digitsPrefix(body, 0, FALSE)
    IN  IF signed /\ SubSeq(s, 1, 1) = "-" THEN [nan |-> p.nan, value |-> 0 - p.value] ELSE p

\* parseInt(x) || d : NaN and 0 are falsy
orDefault(p, d) == IF p.nan \/ p.value = 0 THEN d ELSE p.value

RankCeiling == 1000

calculateTrendingScore(video) ==
    LET dailyMovement == orDefault(parseInt(video.daily_movement), 0)
        dailyRank == orDefault(parseInt(video.daily_rank), RankCeiling)
        movementScore == Max(0, dailyMovement)
        rankScore == Max(0, RankCeiling - dailyRank)
    IN  movementScore + rankScore

Null == [id |-> "null"]

createVideoObject(video) ==
    IF isBlank(video.video_id) \/ isBlank(video.title) \/ isBlank(video.channel_name)
    THEN Null
    ELSE [id |-> video.video_id,
          title |-> video.title,
          channelName |-> video.channel_name,
          dailyRank |-> orDefault(parseInt(video.daily_rank), 0),
          dailyMovement |-> orDefault(parseInt(video.daily_movement), 0),
          trendingScore |-> calculateTrendingScore(video)]

\* Raw CSV fields: an empty cell reads as '', a column absent from the header
\* as undefined, which parseInt turns into the string "undefined"
RawRanks == {"undefined", "", "0", "1", "50", "999", "1000", "1200", "7th", "n/a"}
RawMovements == {"undefined", "", "0", "5", "-3", "20", "+4", " 12", "up", "-"}
RawTitles == {"dog", " "}

RawRows ==
    {[video_id |-> "A", title |-> t, channel_name |-> "Ann", daily_rank |-> r,
      daily_movement |-> m] : t \in RawTitles, r \in RawRanks, m \in RawMovements}

NoRow == [video_id |-> "", title |-> "", channel_name |-> "", daily_rank |-> "",
          daily_movement |-> ""]

InitIngest ==
    /\ videos = <<>>
    /\ isLoaded = FALSE
    /\ userPreferences = <<>>
    /\ interactions = 0
    /\ lastOp = NoOp
    /\ lastRecs = NoRecs
    /\ lastOut = [op |-> "none", row |-> NoRow, video |-> Null]
    /\ InitAppState

CreateVideoObject(row) ==
    /\ lastOut.op = "none"
    /\ lastOut' = [op |-> "createVideoObject", row |-> row, video |-> createVideoObject(row)]
    /\ videos' = IF createVideoObject(row) = Null THEN videos
                 ELSE Append(videos, [id |-> row.video_id])
    /\ UNCHANGED <<isLoaded, userPreferences, interactions, lastOp, lastRecs>>
    /\ UNCHANGED appVars

NextIngest == \E row \in RawRows : CreateVideoObject(row)

SpecIngest == InitIngest /\ [][NextIngest]_vars

\* C24: for every ingested video record, trendingScore =
\* max(dailyMovement, 0) + max(1000 - dailyRank, 0), where dailyMovement and
\* dailyRank are the values stored on that same record, including records
\* whose source rank is missing or unparseable.
C24_TrendingScoreFromStoredFields ==
    (lastOut.op = "createVideoObject" /\ lastOut.video # Null) =>
        lastOut.video.trendingScore =
            Max(lastOut.video.dailyMovement, 0) + Max(RankCeiling - lastOut.video.dailyRank, 0)

-----------------------------------------------------------------------------
(* Paginated endpoints: a client walking the pages of one query (SpecPages) *)

MaxRows == 102
MaxPerPage == 100

Endpoints == {"videos", "search", "csvSearch"}
TableSizes == {0, 1, 2, 3, MaxRows - 1, MaxRows}
PageLimits == {1, 2, MaxPerPage, MaxPerPage + 1}

\* The rows that match the filters, in the order of the ORDER BY clause
matchingRows(total) == [i \in 1..total |-> i]

ceil(a, b) == (a + b - 1) \div b

\* GET /api/videos and GET /api/search: LIMIT limitNum OFFSET offset
selectPage(rows, page, limit) ==
    LET offset == (page - 1) * limit
        limitNum == Min(limit, MaxPerPage)
        total == Len(rows)
        totalPages == ceil(total, limitNum)
    IN  [videos |-> paginate(rows, limitNum, offset),
         page |-> page, limit |-> limitNum, total |-> total,
         totalPages |-> totalPages, hasNext |-> page < totalPages]

\* GET /api/csv/search: filteredVideos.slice(offset, offset + limitNum)
slicePage(rows, page, limit) ==
    LET limitNum == Min(limit, MaxPerPage)
        offset == (page - 1) * limitNum
    IN  [videos |-> paginate(rows, limitNum, offset),
         page |-> page, limit |-> limitNum, total |-> Len(rows),
         totalPages |-> 0, hasNext |-> offset + limitNum < Len(rows)]

getPage(endpoint, rows, page, limit) ==
    IF endpoint = "csvSearch" THEN slicePage(rows, page, limit)
    ELSE selectPage(rows, page, limit)

NoPage == [op |-> "none", endpoint |-> "", total |-> 0, limit |-> 0, page |-> 0,
           rows |-> <<>>, seen |-> <<>>, hasNext |-> FALSE]

InitPages ==
    /\ videos = <<>>
    /\ isLoaded = FALSE
    /\ userPreferences = <<>>
    /\ interactions = 0
    /\ lastOp = NoOp
    /\ lastRecs = NoRecs
    /\ lastOut = NoPage
    /\ InitAppState

RequestPage(endpoint, total, limit, page, seen) ==
    LET answer == getPage(endpoint, matchingRows(total), page, limit)
    IN  /\ lastOut' = [op |-> "page", endpoint |-> endpoint, total |-> total, limit |-> limit,
                       page |-> page, rows |-> answer.videos, seen |-> seen \o answer.videos,
                       hasNext |-> answer.hasNext]
        /\ UNCHANGED <<videos, isLoaded, userPreferences, interactions, lastOp, lastRecs>>
        /\ UNCHANGED appVars

FirstPage(endpoint, total, limit) ==
    /\ lastOut.op = "none"
    /\ RequestPage(endpoint, total, limit, 1, <<>>)

FollowingPage ==
    /\ lastOut.op = "page"
    /\ lastOut.hasNext
    /\ RequestPage(lastOut.endpoint, lastOut.total, lastOut.limit, lastOut.page + 1, lastOut.seen)

NextPages ==
    \/ \E e \in Endpoints, n \in TableSizes, l \in PageLimits : FirstPage(e, n, l)
    \/ FollowingPage

SpecPages == InitPages /\ [][NextPages]_vars

\* C30: for GET /api/videos and GET /api/search with fixed filters, sort and
\* requested limit L over an unchanged table, every page holds at most
\* min(L, 100) rows, requesting pages 1, 2, ... in turn returns every matching
\* row exactly once (none skipped or repeated), including when L > 100, and
\* hasNext is true exactly when a later page is non-empty.
C30_PagesReturnEveryRowOnce ==
    (lastOut.op = "page" /\ lastOut.endpoint \in {"videos", "search"}) =>
        /\ Len(lastOut.rows) <= Min(lastOut.limit, MaxPerPage)
        /\ lastOut.seen = matchingRows(Len(lastOut.seen))
        /\ lastOut.hasNext <=>
             \E q \in (lastOut.page + 1)..(lastOut.page + lastOut.total + 1) :
                getPage(lastOut.endpoint, matchingRows(lastOut.total), q, lastOut.limit).videos # <<>>
        /\ ~lastOut.hasNext => lastOut.seen = matchingRows(lastOut.total)

-----------------------------------------------------------------------------
(* The application: grid buttons and assistant panel wired to the service  *)
(* by App.handleVideoInteraction, with the engine initialised (SpecApp)    *)

MaxEvents == 3
ConfidenceThreshold == 7

currentUserId == "u1"
GridVideoIds == {"A", "B"}
Modes == {"chat", "comments"}
Intents == {"search", "opinion", "chat"}
\* intent.confidence in tenths
Confidences == {5, 7, 8, 10}
Sentiments == {"positive", "negative", "neutral"}

\* VideoDatabaseService.addUserInteraction with the engine present: the backend
\* call's failure is caught, then the engine's addUserPreference runs
addUserInteraction(up, loaded, userId, videoId, action, score) ==
    IF loaded THEN addUserPreference(up, userId, videoId, action, score) ELSE up

\* App.handleVideoInteraction(videoId, action, score = 5)
handleVideoInteraction(up, loaded, videoId, action, score) ==
    addUserInteraction(up, loaded, currentUserId, videoId, action, score)

InitApp ==
    /\ videos = <<VA, VB, VD>>
    /\ isLoaded = TRUE
    /\ userPreferences = <<>>
    /\ interactions = 0
    /\ lastOp = NoOp
    /\ lastRecs = NoRecs
    /\ lastOut = NoOut
    /\ InitAppState

HandleLikeClick(videoId) ==
    LET wasLiked == videoId \in grid.likedVideos
        action == IF wasLiked THEN "unlike" ELSE "like"
        score == IF wasLiked THEN 0 ELSE 8
    IN  /\ interactions < MaxEvents
        /\ interactions' = interactions + 1
        /\ grid' = [likedVideos |-> IF wasLiked THEN grid.likedVideos \ {videoId}
                                    ELSE grid.likedVideos \cup {videoId},
                    dislikedVideos |-> grid.dislikedVideos \ {videoId},
                    clicked |-> grid.clicked \cup {videoId}]
        /\ userPreferences' = handleVideoInteraction(userPreferences, isLoaded, videoId, action, score)
        /\ lastOut' = [op |-> "handleLikeClick", videoId |-> videoId, action |-> action,
                       score |-> score]
        /\ UNCHANGED <<videos, isLoaded, lastOp, lastRecs, loadPromise, pc, loadStarts, parser>>

HandleDislikeClick(videoId) ==
    LET wasDisliked == videoId \in grid.dislikedVideos
        action == IF wasDisliked THEN "undislike" ELSE "dislike"
        score == IF wasDisliked THEN 0 ELSE 2
    IN  /\ interactions < MaxEvents
        /\ interactions' = interactions + 1
        /\ grid' = [likedVideos |-> grid.likedVideos \ {videoId},
                    dislikedVideos |-> IF wasDisliked THEN grid.dislikedVideos \ {videoId}
                                       ELSE grid.dislikedVideos \cup {videoId},
                    clicked |-> grid.clicked \cup {videoId}]
        /\ userPreferences' = handleVideoInteraction(userPreferences, isLoaded, videoId, action, score)
        /\ lastOut' = [op |-> "handleDislikeClick", videoId |-> videoId, action |-> action,
                       score |-> score]
        /\ UNCHANGED <<videos, isLoaded, lastOp, lastRecs, loadPromise, pc, loadStarts, parser>>

\* AssistantPanel.handleSend: onUserPreference is App.handleVideoInteraction and is
\* called with one argument, the object { sentiment, topic, message }; that object
\* arrives as videoId, action is undefined and score takes its default 5.
HandleSend(mode, intent, confidence, sentiment, replyOk) ==
    LET called == /\ mode = "chat"
                  /\ intent = "opinion"
                  /\ confidence > ConfidenceThreshold
                  /\ replyOk
        preference == [sentiment |-> sentiment, topic |-> "dogs", message |-> "I love dogs"]
    IN  /\ interactions < MaxEvents
        /\ interactions' = interactions + 1
        /\ userPreferences' = IF called
                              THEN handleVideoInteraction(userPreferences, isLoaded,
                                                          preference, "undefined", 5)
                              ELSE userPreferences
        /\ lastOut' = [op |-> "handleSend", mode |-> mode, intent |-> intent,
                       confidence |-> confidence, sentiment |-> sentiment,
                       replyOk |-> replyOk, recorded |-> called,
                       action |-> IF called THEN "undefined" ELSE "none",
                       before |-> userPreferences]
        /\ UNCHANGED <<videos, isLoaded, lastOp, lastRecs>>
        /\ UNCHANGED appVars

NextApp ==
    \/ \E v \in GridVideoIds : HandleLikeClick(v)
    \/ \E v \in GridVideoIds : HandleDislikeClick(v)
    \/ \E m \in Modes, i \in Intents, c \in Confidences, s \in Sentiments, ok \in BOOLEAN :
          HandleSend(m, i, c, s, ok)

SpecApp == InitApp /\ [][NextApp]_vars

\* C23: when the assistant classifies a chat message as intent 'opinion' with
\* confidence > 0.7 (and its reply was generated), an interaction is recorded
\* for the current user with action like for a positive sentiment and dislike
\* for a negative one; with confidence <= 0.7 no interaction is recorded.
C23_OpinionRecordsInteraction ==
    (lastOut.op = "handleSend" /\ lastOut.mode = "chat" /\ lastOut.intent = "opinion"
       /\ lastOut.replyOk) =>
        /\ (lastOut.confidence > ConfidenceThreshold /\ lastOut.sentiment = "positive") =>
              (lastOut.recorded /\ lastOut.action = "like")
        /\ (lastOut.confidence > ConfidenceThreshold /\ lastOut.sentiment = "negative") =>
              (lastOut.recorded /\ lastOut.action = "dislike")
        /\ lastOut.confidence <= ConfidenceThreshold =>
              (~lastOut.recorded /\ userPreferences = lastOut.before)

\* C28: with the engine initialised, after any sequence of like-button and
\* dislike-button clicks, every video clicked at least once is in the engine's
\* likedVideos for the current user iff it is in the grid's liked set, and in
\* the engine's dislikedVideos iff it is in the grid's disliked set; the grid's
\* liked and disliked sets are disjoint.
C28_GridAgreesWithEngine ==
    /\ \A v \in grid.clicked :
          /\ v \in liked(userPreferences, currentUserId) <=> v \in grid.likedVideos
          /\ v \in disliked(userPreferences, currentUserId) <=> v \in grid.dislikedVideos
    /\ grid.likedVideos \cap grid.dislikedVideos = {}

-----------------------------------------------------------------------------
(* The lazy load: concurrent callers of ensureLoaded, step by step between *)
(* the awaits (SpecLoad)                                                   *)

MaxLoadStarts == 3

\* Variant: the load is started by every caller that finds the data not loaded
startsLoadWheneverNotLoaded(loaded, promise) == ~loaded

\* ensureLoaded: if (this.isLoaded) return; if (!this.loadPromise) start the load
startsLoad(loaded, promise) == ~loaded /\ promise = "null"

\* csvParser.ensureLoaded up to its await, as getAllVideos calls it
parserEnsureLoaded(p) ==
    IF startsLoad(p.isLoaded, p.loadPromise)
    THEN [p EXCEPT !.loadPromise = "pending", !.loadStarts = @ + 1]
    ELSE p

InitLoad ==
    /\ videos = <<>>
    /\ isLoaded = FALSE
    /\ userPreferences = <<>>
    /\ interactions = 0
    /\ lastOp = NoOp
    /\ lastRecs = NoRecs
    /\ lastOut = NoOut
    /\ InitAppState

\* videoDatabase.ensureLoaded up to its await; a load it starts runs loadDatabase
\* up to `await csvParserService.getAllVideos()`, which runs the parser's
\* ensureLoaded up to its own await.
EnsureLoaded(c) ==
    /\ pc[c] = "idle"
    /\ IF isLoaded
       THEN /\ pc' = [pc EXCEPT ![c] = "returned"]
            /\ UNCHANGED <<loadPromise, loadStarts, parser>>
       ELSE /\ pc' = [pc EXCEPT ![c] = "awaitService"]
            /\ IF startsLoad(isLoaded, loadPromise)
               THEN /\ loadStarts < MaxLoadStarts
                    /\ parser.loadStarts < MaxLoadStarts
                    /\ loadStarts' = loadStarts + 1
                    /\ loadPromise' = "pending"
                    /\ parser' = parserEnsureLoaded(parser)
               ELSE UNCHANGED <<loadPromise, loadStarts, parser>>
    /\ UNCHANGED <<videos, isLoaded, userPreferences, interactions, lastOp, lastRecs, lastOut, grid>>

\* a caller of the parser itself (csvParserService.getAllVideos and the like)
ParserEnsureLoaded(c) ==
    /\ pc[c] = "idle"
    /\ parser.loadStarts < MaxLoadStarts
    /\ IF parser.isLoaded
       THEN /\ pc' = [pc EXCEPT ![c] = "returned"]
            /\ UNCHANGED parser
       ELSE /\ pc' = [pc EXCEPT ![c] = "awaitParser"]
            /\ parser' = parserEnsureLoaded(parser)
    /\ UNCHANGED <<videos, isLoaded, userPreferences, interactions, lastOp, lastRecs, lastOut,
                   loadPromise, loadStarts, grid>>

\* loadCSVData after its fetch: the parsed file, or [] from its catch; either way
\* the parser is marked loaded
LoadCSVData(result) ==
    /\ parser.loadPromise = "pending"
    /\ ~parser.isLoaded
    /\ videos' = result
    /\ parser' = [parser EXCEPT !.isLoaded = TRUE]
    /\ UNCHANGED <<isLoaded, userPreferences, interactions, lastOp, lastRecs, lastOut,
                   loadPromise, pc, loadStarts, grid>>

\* Promise.all([loadCategories(), loadCSVData()]) settles
ParserLoadSettles ==
    /\ parser.loadPromise = "pending"
    /\ parser.isLoaded
    /\ parser' = [parser EXCEPT !.loadPromise = "settled"]
    /\ UNCHANGED <<videos, isLoaded, userPreferences, interactions, lastOp, lastRecs, lastOut,
                   loadPromise, pc, loadStarts, grid>>

\* loadDatabase after `await csvParserService.getAllVideos()`: engine, category
\* database, isLoaded = true; its promise settles
LoadDatabase ==
    /\ loadPromise = "pending"
    /\ parser.loadPromise = "settled"
    /\ isLoaded' = TRUE
    /\ loadPromise' = "settled"
    /\ UNCHANGED <<videos, userPreferences, interactions, lastOp, lastRecs, lastOut,
                   pc, loadStarts, grid, parser>>

\* the caller's `await this.loadPromise` resumes
Resume(c) ==
    /\ \/ pc[c] = "awaitService" /\ loadPromise = "settled"
       \/ pc[c] = "awaitParser" /\ parser.loadPromise = "settled"
    /\ pc' = [pc EXCEPT ![c] = "resumed"]
    /\ UNCHANGED <<videos, isLoaded, userPreferences, interactions, lastOp, lastRecs, lastOut,
                   loadPromise, loadStarts, grid, parser>>

\* the caller's method returns; the caller may call again
Return(c) ==
    /\ pc[c] \in {"returned", "resumed"}
    /\ pc' = [pc EXCEPT ![c] = "idle"]
    /\ UNCHANGED <<videos, isLoaded, userPreferences, interactions, lastOp, lastRecs, lastOut,
                   loadPromise, loadStarts, grid, parser>>

NextLoad ==
    \/ \E c \in Callers : EnsureLoaded(c)
    \/ \E c \in Callers : ParserEnsureLoaded(c)
    \/ \E result \in LoadResults : LoadCSVData(result)
    \/ ParserLoadSettles
    \/ LoadDatabase
    \/ \E c \in Callers : Resume(c)
    \/ \E c \in Callers : Return(c)

SpecLoad == InitLoad /\ [][NextLoad]_vars

\* C27: under any interleaving of concurrent callers of ensureLoaded the
\* database load, and the parser's load under it, is started at most once in
\* the lifetime of the service; a load that failed leaves the service marked
\* loaded with an empty catalogue, its promise settled, and is not retried.
C27_LoadStartedAtMostOnce ==
    /\ loadStarts <= 1
    /\ parser.loadStarts <= 1
    /\ (loadStarts = 0) <=> (loadPromise = "null")
    /\ loadPromise = "settled" => (isLoaded /\ parser.isLoaded)
    /\ isLoaded => loadPromise = "settled"

\* two callers awaited the one load, which failed, and both have resumed
C27_Witness ==
    /\ pc = [c \in Callers |-> "resumed"]
    /\ loadStarts = 1
    /\ parser.loadStarts = 1
    /\ isLoaded
    /\ videos = <<>>

=============================================================================
